---- MODULE Spec2Model ----
(***************************************************************************)
(* RadVerify: the comparison engine (modules/verification_engine.py), the  *)
(* single-feature comparison (radverify/comparison.py) and the legacy      *)
(* pipeline (pipeline.py), modelled as a state machine of calls.           *)
(*                                                                         *)
(* Conventions.  A Python dict is a function whose domain is the set of    *)
(* its keys.  An optional number is <<>> (None) or <<v>>.  Lengths in mm   *)
(* are integers in tenths of a millimetre (47.0 mm is 470), confidences    *)
(* are integers in hundredths (0.8 is 80), agreement rates are integers    *)
(* in thousandths (the code rounds the returned rate to 3 decimals).       *)
(***************************************************************************)
EXTENDS Integers, Sequences, FiniteSets, TLC

VARIABLES
    engine,       \* the VerificationEngine instance: its two attributes
    pixel_to_mm,  \* AIAnalyzer.pixel_to_mm of the pipeline's shared analyzer
    calls,        \* the calls made so far, each <<operation, arguments, outcome>>
    telemetry,    \* logs/telemetry.log: the pieces of text appended so far
    requests      \* the requests in flight: per request, where it stands

vars == <<engine, pixel_to_mm, calls, telemetry, requests>>

----------------------------------------------------------------------------
(* Python values *)

None == <<>>

Some(v) == <<v>>

EmptyDict == [k \in {} |-> 0]

\* dict.get(k, default)
Get(d, k, default) == IF k \in DOMAIN d THEN d[k] ELSE default

\* truth value of an optional number: None and 0 are falsy
Truthy(x) == x # None /\ x[1] # 0

\* truth value of a dict: None and {} are both falsy (and both <<>> here)
TruthyDict(d) == d # EmptyDict

Abs(n) == IF n < 0 THEN -n ELSE n

\* a returned value and a raised exception
Ret(v) == [ret |-> v]

Raise(e) == [exc |-> e]

Returned(o) == "ret" \in DOMAIN o

\* the dicts whose keys are at most n elements of keys, with values in vals
DictsUpTo(keys, vals, n) ==
    UNION { [S -> vals] : S \in { T \in SUBSET keys : Cardinality(T) <= n } }

----------------------------------------------------------------------------
(* VerificationEngine: class constants and constructor *)

CONFIDENCE_HIGH == 80

CONFIDENCE_MEDIUM == 50

CONFIDENCE_LOW == 30

MEASUREMENT_TOLERANCE == [BPD |-> 20, HC |-> 50, AC |-> 50, FL |-> 20]

\* the default of self.measurement_tolerance.get(param, 2.0)
DEFAULT_TOLERANCE == 20

PARAMS == <<"BPD", "HC", "AC", "FL">>

ParamSet == { PARAMS[i] : i \in 1..Len(PARAMS) }

\* VerificationEngine.__init__(config)
EngineInit(config) ==
    IF TruthyDict(config)
    THEN [confidence_thresholds |->
              Get(Get(config, "verification", EmptyDict),
                  "confidence_thresholds", EmptyDict),
          measurement_tolerance |->
              Get(Get(config, "verification", EmptyDict),
                  "measurement_tolerance", EmptyDict)]
    ELSE [confidence_thresholds |->
              [high |-> CONFIDENCE_HIGH, medium |-> CONFIDENCE_MEDIUM,
               low |-> CONFIDENCE_LOW],
          measurement_tolerance |-> MEASUREMENT_TOLERANCE]

----------------------------------------------------------------------------
(* VerificationEngine.compare_measurements *)

\* the comparison of one parameter: the body of the loop
CompareMeasurement(e, param, ai_measurements, doctor_measurements) ==
    LET ai_data == Get(ai_measurements, param, EmptyDict)
        doctor_data == Get(doctor_measurements, param, EmptyDict)
        ai_value == Get(ai_data, "value", None)
        doctor_value == Get(doctor_data, "value", None)
        doctor_mentioned == Get(doctor_data, "mentioned", FALSE)
        tolerance == Get(e.measurement_tolerance, param, DEFAULT_TOLERANCE)
    IN  IF Truthy(ai_value) /\ Truthy(doctor_value)
        THEN LET difference == Abs(ai_value[1] - doctor_value[1])
                 within_tolerance == difference <= tolerance
             IN  [status |-> IF within_tolerance THEN "match" ELSE "mismatch",
                  ai_value |-> ai_value,
                  doctor_value |-> doctor_value,
                  difference |-> difference,
                  tolerance |-> tolerance,
                  severity |-> IF within_tolerance THEN "low" ELSE "high"]
        ELSE IF Truthy(ai_value) /\ ~doctor_mentioned
        THEN [status |-> "omission", ai_value |-> ai_value,
              doctor_value |-> None, severity |-> "medium"]
        ELSE IF ~Truthy(ai_value) /\ doctor_mentioned /\ Truthy(doctor_value)
        THEN [status |-> "overstatement", ai_value |-> None,
              doctor_value |-> doctor_value, severity |-> "medium"]
        ELSE [status |-> "not_assessed", ai_value |-> None,
              doctor_value |-> None, severity |-> "low"]

\* the whole method: one entry per tracked parameter
CompareMeasurementsOp(e, ai_measurements, doctor_measurements) ==
    [param \in ParamSet |->
        CompareMeasurement(e, param, ai_measurements, doctor_measurements)]

----------------------------------------------------------------------------
(* VerificationEngine.compare_structures *)

\* the characters of the structure names and report keywords used below
Chars ==
    ("skull" :>
         <<"s", "k", "u", "l", "l">>) @@
    ("ventricles" :>
         <<"v", "e", "n", "t", "r", "i", "c", "l", "e", "s">>) @@
    ("nasal_bone" :>
         <<"n", "a", "s", "a", "l", "_", "b", "o", "n", "e">>) @@
    ("ventricle" :>
         <<"v", "e", "n", "t", "r", "i", "c", "l", "e">>) @@
    ("nasal bone" :>
         <<"n", "a", "s", "a", "l", " ", "b", "o", "n", "e">>) @@
    ("head" :>
         <<"h", "e", "a", "d">>) @@
    ("abdomen" :>
         <<"a", "b", "d", "o", "m", "e", "n">>) @@
    ("femur" :>
         <<"f", "e", "m", "u", "r">>) @@
    ("cerebellum" :>
         <<"c", "e", "r", "e", "b", "e", "l", "l", "u", "m">>) @@
    ("profile" :>
         <<"p", "r", "o", "f", "i", "l", "e">>) @@
    ("lips" :>
         <<"l", "i", "p", "s">>) @@
    ("vertebrae" :>
         <<"v", "e", "r", "t", "e", "b", "r", "a", "e">>) @@
    ("skin_coverage" :>
         <<"s", "k", "i", "n", "_", "c", "o", "v", "e", "r", "a", "g",
           "e">>) @@
    ("four_chamber_view" :>
         <<"f", "o", "u", "r", "_", "c", "h", "a", "m", "b", "e", "r",
           "_", "v", "i", "e", "w">>) @@
    ("stomach" :>
         <<"s", "t", "o", "m", "a", "c", "h">>) @@
    ("kidneys" :>
         <<"k", "i", "d", "n", "e", "y", "s">>) @@
    ("bladder" :>
         <<"b", "l", "a", "d", "d", "e", "r">>) @@
    ("arms" :>
         <<"a", "r", "m", "s">>) @@
    ("legs" :>
         <<"l", "e", "g", "s">>) @@
    ("hands" :>
         <<"h", "a", "n", "d", "s">>) @@
    ("feet" :>
         <<"f", "e", "e", "t">>) @@
    ("placenta" :>
         <<"p", "l", "a", "c", "e", "n", "t", "a">>) @@
    ("amniotic_fluid" :>
         <<"a", "m", "n", "i", "o", "t", "i", "c", "_", "f", "l", "u",
           "i", "d">>) @@
    ("umbilical_cord" :>
         <<"u", "m", "b", "i", "l", "i", "c", "a", "l", "_", "c", "o",
           "r", "d">>) @@
    ("brain" :>
         <<"b", "r", "a", "i", "n">>) @@
    ("cranium" :>
         <<"c", "r", "a", "n", "i", "u", "m">>) @@
    ("cavum septum pellucidum" :>
         <<"c", "a", "v", "u", "m", " ", "s", "e", "p", "t", "u", "m",
           " ", "p", "e", "l", "l", "u", "c", "i", "d", "u", "m">>) @@
    ("heart" :>
         <<"h", "e", "a", "r", "t">>) @@
    ("cardiac" :>
         <<"c", "a", "r", "d", "i", "a", "c">>) @@
    ("four-chamber" :>
         <<"f", "o", "u", "r", "-", "c", "h", "a", "m", "b", "e", "r">>) @@
    ("atrium" :>
         <<"a", "t", "r", "i", "u", "m">>) @@
    ("spine" :>
         <<"s", "p", "i", "n", "e">>) @@
    ("spinal" :>
         <<"s", "p", "i", "n", "a", "l">>) @@
    ("vertebra" :>
         <<"v", "e", "r", "t", "e", "b", "r", "a">>) @@
    ("face" :>
         <<"f", "a", "c", "e">>) @@
    ("facial" :>
         <<"f", "a", "c", "i", "a", "l">>) @@
    ("lip" :>
         <<"l", "i", "p">>) @@
    ("kidney" :>
         <<"k", "i", "d", "n", "e", "y">>) @@
    ("liver" :>
         <<"l", "i", "v", "e", "r">>) @@
    ("arm" :>
         <<"a", "r", "m">>) @@
    ("leg" :>
         <<"l", "e", "g">>) @@
    ("hand" :>
         <<"h", "a", "n", "d">>) @@
    ("foot" :>
         <<"f", "o", "o", "t">>) @@
    ("limb" :>
         <<"l", "i", "m", "b">>) @@
    ("limbs" :>
         <<"l", "i", "m", "b", "s">>) @@
    ("placental" :>
         <<"p", "l", "a", "c", "e", "n", "t", "a", "l">>) @@
    ("amniotic fluid" :>
         <<"a", "m", "n", "i", "o", "t", "i", "c", " ", "f", "l", "u",
           "i", "d">>) @@
    ("liquor" :>
         <<"l", "i", "q", "u", "o", "r">>) @@
    ("fluid volume" :>
         <<"f", "l", "u", "i", "d", " ", "v", "o", "l", "u", "m", "e">>) @@
    ("umbilical cord" :>
         <<"u", "m", "b", "i", "l", "i", "c", "a", "l", " ", "c", "o",
           "r", "d">>) @@
    ("cord" :>
         <<"c", "o", "r", "d">>)

\* str.replace('_', ' ')
ReplaceUnderscore(s) == [i \in 1..Len(s) |-> IF s[i] = "_" THEN " " ELSE s[i]]

\* a in b, for strings
IsSubstr(a, b) ==
    \E i \in 0..(Len(b) - Len(a)) : SubSeq(b, i + 1, i + Len(a)) = a

\* the condition of the keyword loop
KeywordMatches(structure_name, keyword) ==
    LET name == ReplaceUnderscore(Chars[structure_name])
    IN  IsSubstr(name, Chars[keyword]) \/ IsSubstr(Chars[keyword], name)

\* the keyword loop: the first matching item of the report's category decides
\* doctor_mentioned and doctor_negated; the category is a dict in insertion
\* order, i.e. a sequence of [keyword, data] items
DoctorLookup(structure_name, doctor_category) ==
    LET hits == { i \in 1..Len(doctor_category) :
                    KeywordMatches(structure_name, doctor_category[i].keyword) }
    IN  IF hits = {}
        THEN [mentioned |-> FALSE, negated |-> FALSE]
        ELSE LET first == CHOOSE i \in hits : \A j \in hits : i <= j
             IN  [mentioned |-> TRUE,
                  negated |-> Get(doctor_category[first].data, "negated", FALSE)]

\* the status decision; thresholds['high'] is read only when ai_present holds
StructureStatus(e, ai_present, ai_confidence, doctor_mentioned, doctor_negated) ==
    LET high == e.confidence_thresholds["high"]
    IN  IF ai_present /\ ai_confidence >= high
        THEN IF doctor_mentioned /\ ~doctor_negated
             THEN [status |-> "match", severity |-> "low"]
             ELSE IF doctor_mentioned /\ doctor_negated
             THEN [status |-> "mismatch", severity |-> "high"]
             ELSE IF ~doctor_mentioned
             THEN [status |-> "omission", severity |-> "medium"]
             ELSE [status |-> "uncertain", severity |-> "low"]
        ELSE IF ~ai_present \/ ai_confidence < high
        THEN IF doctor_mentioned /\ ~doctor_negated
             THEN [status |-> "overstatement", severity |-> "medium"]
             ELSE [status |-> "match", severity |-> "low"]
        ELSE [status |-> "uncertain", severity |-> "low"]

\* the comparison of one structure: the body of the inner loop
CompareStructure(e, category, structure_name, ai_data, doctor_structures) ==
    LET ai_present == Get(ai_data, "present", FALSE)
        ai_confidence == Get(ai_data, "confidence", 0)
        doctor == DoctorLookup(structure_name,
                               Get(doctor_structures, category, <<>>))
        decided == StructureStatus(e, ai_present, ai_confidence,
                                   doctor.mentioned, doctor.negated)
    IN  [status |-> decided.status,
         ai_present |-> ai_present,
         ai_confidence |-> ai_confidence,
         doctor_mentioned |-> doctor.mentioned,
         doctor_negated |-> doctor.negated,
         severity |-> decided.severity]

\* self.confidence_thresholds['high'] raises KeyError when the key is missing;
\* "ai_present and ..." and "not ai_present or ..." short-circuit on an absent
\* structure, so only a structure reported present reads the threshold
StructureRaises(e, ai_data) ==
    /\ Get(ai_data, "present", FALSE)
    /\ "high" \notin DOMAIN e.confidence_thresholds

\* the whole method
CompareStructuresOp(e, ai_structures, doctor_structures) ==
    IF \E c \in DOMAIN ai_structures : \E s \in DOMAIN ai_structures[c] :
          StructureRaises(e, ai_structures[c][s])
    THEN Raise("KeyError")
    ELSE Ret([c \in DOMAIN ai_structures |->
                [s \in DOMAIN ai_structures[c] |->
                    CompareStructure(e, c, s, ai_structures[c][s],
                                     doctor_structures)]])

----------------------------------------------------------------------------
(* VerificationEngine.calculate_agreement_rate, assess_risk_level, verify *)

\* the (category, structure) pairs of a structure comparison result
StructureItems(structure_comparisons) ==
    UNION { { <<c, s>> : s \in DOMAIN structure_comparisons[c] } :
              c \in DOMAIN structure_comparisons }

\* calculate_agreement_rate with an omission counted as an agreement
CalculateAgreementRateLenient(measurement_comparisons, structure_comparisons) ==
    LET counted == { p \in DOMAIN measurement_comparisons :
                       measurement_comparisons[p].status # "not_assessed" }
        items == StructureItems(structure_comparisons)
        total_items == Cardinality(counted) + Cardinality(items)
        agreements ==
            Cardinality({ p \in counted :
                measurement_comparisons[p].status \in {"match", "omission"} })
            + Cardinality({ i \in items :
                  structure_comparisons[i[1]][i[2]].status
                      \in {"match", "omission"} })
    IN  IF total_items = 0
        THEN [num |-> 0, den |-> 1]
        ELSE [num |-> agreements, den |-> total_items]

\* agreements and total_items when the two loops are over; the rate is the
\* fraction [num, den], 0.0 when nothing was counted
CalculateAgreementRate(measurement_comparisons, structure_comparisons) ==
    LET counted == { p \in DOMAIN measurement_comparisons :
                       measurement_comparisons[p].status # "not_assessed" }
        items == StructureItems(structure_comparisons)
        total_items == Cardinality(counted) + Cardinality(items)
        agreements ==
            Cardinality({ p \in counted :
                            measurement_comparisons[p].status = "match" })
            + Cardinality({ i \in items :
                  structure_comparisons[i[1]][i[2]].status = "match" })
    IN  IF total_items = 0
        THEN [num |-> 0, den |-> 1]
        ELSE [num |-> agreements, den |-> total_items]

\* assess_risk_level with > 0.85 in place of >= 0.85
AssessRiskLevelStrict(agreement_rate) ==
    IF agreement_rate.num * 100 > 85 * agreement_rate.den
    THEN "low"
    ELSE IF agreement_rate.num * 100 >= 70 * agreement_rate.den
    THEN "medium"
    ELSE "high"

\* agreement_rate >= 0.85, >= 0.70 on the fraction
AssessRiskLevel(agreement_rate) ==
    IF agreement_rate.num * 100 >= 85 * agreement_rate.den
    THEN "low"
    ELSE IF agreement_rate.num * 100 >= 70 * agreement_rate.den
    THEN "medium"
    ELSE "high"

\* round(agreement_rate, 3), in thousandths: to nearest, ties to even
Round3(rate) ==
    LET q == (1000 * rate.num) \div rate.den
        r == (1000 * rate.num) % rate.den
    IN  IF 2 * r > rate.den \/ (2 * r = rate.den /\ q % 2 = 1)
        THEN q + 1
        ELSE q

\* the keys the discrepancies dict starts with
DiscrepancyKeys == {"matches", "omissions", "mismatches", "overstatements"}

\* the first counting loop, over the measurement comparisons: a status that
\* is a key of the dict increments the key status + 's', else 'match'
\* increments 'matches'
CountMeasurements(measurement_comparisons, key) ==
    Cardinality({ p \in DOMAIN measurement_comparisons :
        LET status == measurement_comparisons[p].status
        IN  IF status \in DiscrepancyKeys
            THEN status \o "s" = key
            ELSE status = "match" /\ key = "matches" })

\* the second counting loop, over the structure comparisons
CountStructures(structure_comparisons, key) ==
    Cardinality({ i \in StructureItems(structure_comparisons) :
        LET status == structure_comparisons[i[1]][i[2]].status
        IN  \/ status = "match" /\ key = "matches"
            \/ status = "omission" /\ key = "omissions"
            \/ status = "mismatch" /\ key = "mismatches"
            \/ status = "overstatement" /\ key = "overstatements" })

\* the whole method; an exception of compare_structures propagates
VerifyOp(e, ai_findings, doctor_findings) ==
    LET measurement_comparisons ==
            CompareMeasurementsOp(e, Get(ai_findings, "biometry", EmptyDict),
                                  Get(doctor_findings, "measurements", EmptyDict))
        compared ==
            CompareStructuresOp(e,
                Get(ai_findings, "structures_detected", EmptyDict),
                Get(doctor_findings, "structures", EmptyDict))
        structure_comparisons == compared.ret
        agreement_rate ==
            CalculateAgreementRate(measurement_comparisons,
                                   structure_comparisons)
    IN  IF ~Returned(compared)
        THEN compared
        ELSE Ret([measurement_comparisons |-> measurement_comparisons,
                  structure_comparisons |-> structure_comparisons,
                  agreement_rate |-> Round3(agreement_rate),
                  risk_level |-> AssessRiskLevel(agreement_rate),
                  discrepancy_counts |->
                      [key \in DiscrepancyKeys |->
                          CountMeasurements(measurement_comparisons, key)
                          + CountStructures(structure_comparisons, key)]])

----------------------------------------------------------------------------
(* radverify.comparison.compare_findings *)

\* the decision matrix on AIFinding.detected, ReportFindings.mentioned and
\* ReportFindings.negated; AIFinding.confidence is not read
CompareFindingsOp(ai_finding, report_findings) ==
    LET ai_present == ai_finding.detected
        report_mentions == report_findings.mentioned
        report_negated == report_findings.negated
    IN  IF ai_present /\ report_mentions /\ ~report_negated
        THEN [status |-> "match",
              explanation |->
                  "Both AI and report describe the feature as present."]
        ELSE IF ai_present /\ ~report_mentions
        THEN [status |-> "omission",
              explanation |->
                  "AI detected the feature, but it was not mentioned in the report."]
        ELSE IF ai_present /\ report_negated
        THEN [status |-> "contradiction",
              explanation |->
                  "AI detected the feature, yet the report explicitly negated its presence."]
        ELSE IF ~ai_present /\ report_mentions /\ ~report_negated
        THEN [status |-> "overstatement",
              explanation |->
                  "Report mentions the feature even though AI did not detect it."]
        ELSE IF ~ai_present /\ report_negated
        THEN [status |-> "match_absent",
              explanation |->
                  "Both AI and report indicate the feature is absent."]
        ELSE [status |-> "match",
              explanation |->
                  "No inconsistencies detected for the monitored feature."]

----------------------------------------------------------------------------
(* modules.ai_analyzer: the part of AIAnalyzer.analyze the pipeline reaches *)

\* AIAnalyzer.__init__: self.pixel_to_mm = 0.25, in 1/10000 mm per pixel
PIXEL_TO_MM_INIT == 2500

\* CalibrationDetector.detect: return 0.25 # Default fallback
PIXEL_TO_MM_DEFAULT == 2500

SetMin(S) == CHOOSE x \in S : \A y \in S : x <= y

SetMax(S) == CHOOSE x \in S : \A y \in S : x >= y

\* n / d rounded to the nearest integer, ties to even
RoundDiv(n, d) ==
    LET q == n \div d
        r == n % d
    IN  IF 2 * r > d \/ (2 * r = d /\ q % 2 = 1) THEN q + 1 ELSE q

\* CalibrationDetector.detect on an image given by the number of bright
\* pixels in the edge strip and the modal gap between their rows
CalibrationDetect(image) ==
    IF image.bright_pixels > 10 /\ image.modal_gap > 10
    THEN RoundDiv(10 * 10000, image.modal_gap)
    ELSE PIXEL_TO_MM_DEFAULT

\* AIAnalyzer.segment_structures: the call cv2.dilation(...) names a function
\* OpenCV does not have (it is cv2.dilate), so the method raises
SegmentStructures(image) == Raise("AttributeError")

\* the fallback values of BPD, HC, AC and FL, in tenths of a millimetre
FALLBACK_VALUES == [BPD |-> 470, HC |-> 1750, AC |-> 1520, FL |-> 315]

\* the part of measure_biometry after the segmentation step. The contours come
\* sorted by area, each with its area, its number of points, the axes of the
\* ellipse fitted to it and the sides of its minimal rectangle, in pixels;
\* jitter gives the draw of np.random.uniform(-1.5, 1.5) of each parameter in
\* tenths; values are in tenths of a millimetre, confidences in hundredths
Measurements(contours, ptm, jitter) ==
    LET \* the integer square root of n, which is at most bound
        Isqrt(n, bound) ==
            CHOOSE r \in 0..bound : r * r <= n /\ n < (r + 1) * (r + 1)
        mm(pixels) == RoundDiv(pixels * ptm, 1000)
        mm100(pixels) == RoundDiv(pixels * ptm, 100000)
        entry(value, method, confidence) ==
            [value |-> value, unit |-> "mm", method |-> method,
             confidence |-> confidence]
        heads == { n \in 1..Len(contours) :
                     /\ contours[n].area >= 5000
                     /\ contours[n].points >= 5
                     /\ 70 * contours[n].major < 100 * contours[n].minor
                     /\ 100 * contours[n].minor < 95 * contours[n].major }
        abdomens == { n \in 1..Len(contours) :
                        /\ heads = {} \/ n # SetMin(heads)
                        /\ contours[n].area >= 3000
                        /\ contours[n].points >= 5
                        /\ 85 * contours[n].major < 100 * contours[n].minor
                        /\ contours[n].minor <= contours[n].major }
        femurs == { n \in 1..Len(contours) :
                      /\ contours[n].area >= 500 /\ contours[n].area <= 5000
                      /\ contours[n].width > 0
                      /\ contours[n].length > 3 * contours[n].width
                      /\ 200000 < contours[n].length * ptm
                      /\ contours[n].length * ptm < 500000 }
        head == contours[SetMin(heads)]
        abdomen == contours[SetMin(abdomens)]
        \* Ramanujan's approximation, in hundredths of a pixel, with 355/113
        \* for pi
        hc_pixels ==
            (355 * (300 * (head.major + head.minor)
                    - Isqrt(10000 * (3 * head.major + head.minor)
                                  * (head.major + 3 * head.minor),
                            200 * (head.major + head.minor))))
            \div (113 * 4)
        ac_pixels == (355 * 100 * (abdomen.major + abdomen.minor)) \div (113 * 2)
        fallback(param) ==
            entry(FALLBACK_VALUES[param] + jitter[param], "cv_fallback", 65)
    IN  [BPD |-> IF heads # {} THEN entry(mm(head.minor), "cv_ellipse", 88)
                 ELSE fallback("BPD"),
         HC |-> IF heads # {} THEN entry(mm100(hc_pixels), "cv_ellipse", 85)
                ELSE fallback("HC"),
         AC |-> IF abdomens # {} THEN entry(mm100(ac_pixels), "cv_ellipse", 82)
                ELSE fallback("AC"),
         FL |-> IF femurs # {}
                THEN entry(mm(contours[SetMin(femurs)].length), "cv_rect", 80)
                ELSE fallback("FL")]

\* AIAnalyzer.measure_biometry: writes self.pixel_to_mm, then calls
\* segment_structures before any measurement is taken
MeasureBiometry(image) ==
    LET masks == SegmentStructures(image)
    IN  [pixel_to_mm |-> CalibrationDetect(image),
         out |-> IF Returned(masks)
                 THEN Ret(Measurements(image.contours, CalibrationDetect(image),
                                       image.jitter))
                 ELSE masks]

\* AIAnalyzer.analyze: detect_structures, then measure_biometry
Analyze(image) ==
    LET measured == MeasureBiometry(image)
    IN  [pixel_to_mm |-> measured.pixel_to_mm,
         out |-> IF Returned(measured.out)
                 THEN Ret([biometry |-> measured.out.ret,
                           structures_detected |-> EmptyDict])
                 ELSE measured.out]

----------------------------------------------------------------------------
(* modules.input_handler.InputHandler *)

ALLOWED_IMAGE_EXTENSIONS == {".jpg", ".jpeg", ".png", ".bmp", ".tiff", ".dcm"}

MAX_IMAGE_SIZE_MB == 50

MIN_IMAGE_SIZE == 100

MIN_REPORT_LENGTH == 50

\* InputHandler.validate_image: the error message, or None
ValidateImage(image_file) ==
    IF image_file = None
    THEN Some("No image file provided")
    ELSE IF image_file.ext \notin ALLOWED_IMAGE_EXTENSIONS
    THEN Some("Invalid file type")
    ELSE IF image_file.size_mb > MAX_IMAGE_SIZE_MB
    THEN Some("File too large")
    ELSE IF image_file.corrupted
    THEN Some("Invalid or corrupted image file")
    ELSE IF image_file.width < MIN_IMAGE_SIZE \/ image_file.height < MIN_IMAGE_SIZE
    THEN Some("Image too small")
    ELSE None

\* InputHandler.validate_report on a text given by its length after strip()
ValidateReport(report_text) ==
    IF report_text.stripped_len = 0
    THEN Some("Report text is empty")
    ELSE IF report_text.stripped_len < MIN_REPORT_LENGTH
    THEN Some("Report text too short (minimum 50 characters)")
    ELSE None

\* InputHandler.process_inputs: both validations run, the errors accumulate
ProcessInputs(image_file, report_text) ==
    LET image_error == ValidateImage(image_file)
        report_error == ValidateReport(report_text)
        errors ==
            (IF image_error = None THEN <<>>
             ELSE <<"Image validation failed: " \o image_error[1]>>)
            \o (IF report_error = None THEN <<>>
                ELSE <<"Report validation failed: " \o report_error[1]>>)
    IN  [valid |-> errors = <<>>, errors |-> errors]

----------------------------------------------------------------------------
(* pipeline.RadVerifyPipeline.process *)

\* the results dict when the call returns, and the analyzer's pixel_to_mm
ProcessOp(e, ptm, image_file, doctor_report_text, enhance_image) ==
    LET input_results == ProcessInputs(image_file, doctor_report_text)
        enhanced == IF enhance_image
                    THEN [enhancement_metrics |-> "comparison_metrics"]
                    ELSE EmptyDict
        analysis == Analyze(image_file.image)
        verification ==
            VerifyOp(e, analysis.out.ret, doctor_report_text.findings)
        failed(stage, error) ==
            [success |-> FALSE, stage |-> stage,
             errors |-> <<"Error in stage '" \o stage \o "': " \o error>>]
    IN  IF ~input_results.valid
        THEN [results |-> [success |-> FALSE, stage |-> "input_validation",
                           errors |-> input_results.errors],
              pixel_to_mm |-> ptm]
        ELSE IF ~Returned(analysis.out)
        THEN [results |-> enhanced @@ failed("ai_analysis", analysis.out.exc),
              pixel_to_mm |-> analysis.pixel_to_mm]
        ELSE IF ~Returned(verification)
        THEN [results |-> enhanced @@ failed("verification", verification.exc),
              pixel_to_mm |-> analysis.pixel_to_mm]
        ELSE [results |-> enhanced @@
                          [success |-> TRUE, stage |-> "completed",
                           errors |-> <<>>,
                           ai_findings |-> analysis.out.ret,
                           doctor_findings |-> doctor_report_text.findings,
                           verification_results |-> verification.ret],
              pixel_to_mm |-> analysis.pixel_to_mm]

----------------------------------------------------------------------------
(* The inputs of the calls *)

\* at most this many parameters carry an entry in a measurement dict
MaxMeasKeys == 1

\* at most this many structures are in the AI's structure dict
MaxStructs == 2

\* at most this many keywords are in the report's structure dict
MaxKeywords == 2

\* the agreement rates passed to assess_risk_level are k / RateSteps
RateSteps == 100

\* at most this many calls are made on one engine in SpecSeq
MaxCalls == 3

\* configurations: none (or {}), a file without a verification section, and
\* a file that sets the thresholds and some of the tolerances
Configs ==
    { EmptyDict,
      [ai_model |-> [confidence_threshold |-> 80]],
      [verification |->
          [confidence_thresholds |-> [high |-> 80, medium |-> 50, low |-> 30],
           measurement_tolerance |-> [BPD |-> 30, HC |-> 50]]] }

AiValues == {0, 470}

DocValues == {0, 470, 490, 491, 520, 521}

ConfidenceLevels == {40, 79, 80, 85}

AiMeasEntries == { [value |-> Some(v)] : v \in AiValues }

\* the entries NLPParser.extract_measurements builds: a value that was
\* mentioned, or no value and not mentioned
DocMeasEntries ==
    { [value |-> Some(d), mentioned |-> TRUE] : d \in DocValues }
    \cup { [value |-> None, mentioned |-> FALSE] }

\* (category, structure) pairs of AIAnalyzer.FETAL_STRUCTURES
AiCatalog ==
    { <<"brain", "skull">>, <<"brain", "ventricles">>, <<"face", "nasal_bone">> }

\* (category, keyword) pairs of NLPParser.STRUCTURE_KEYWORDS, in their order
DocCatalog ==
    << <<"brain", "skull">>, <<"brain", "ventricle">>, <<"face", "nasal bone">> >>

\* the AI structure dict holding the pairs of S with the data f gives them
AiStructDict(S, f) ==
    [c \in { p[1] : p \in S } |->
        [s \in { p[2] : p \in { q \in S : q[1] = c } } |-> f[<<c, s>>]]]

AiStructDicts(entries, n) ==
    { AiStructDict(S, f) :
        <<S, f>> \in UNION { { <<T, g>> : g \in [T -> entries] } :
                       T \in { U \in SUBSET AiCatalog : Cardinality(U) <= n } } }

\* the items of category c among the catalog entries S, in catalog order
DocItems(S, negated, c) ==
    LET F[i \in 0..Len(DocCatalog)] ==
            IF i = 0 THEN <<>>
            ELSE IF i \in S /\ DocCatalog[i][1] = c
            THEN Append(F[i - 1],
                        [keyword |-> DocCatalog[i][2],
                         data |-> [mentioned |-> TRUE, negated |-> negated[i]]])
            ELSE F[i - 1]
    IN  F[Len(DocCatalog)]

DocStructDict(S, negated) ==
    [c \in { DocCatalog[i][1] : i \in S } |-> DocItems(S, negated, c)]

DocStructDicts(n) ==
    { DocStructDict(S, g) :
        <<S, g>> \in UNION { { <<T, h>> : h \in [T -> BOOLEAN] } :
                       T \in { U \in SUBSET (1..Len(DocCatalog)) :
                                 Cardinality(U) <= n } } }

MeasurementInputs ==
    DictsUpTo(ParamSet, AiMeasEntries, MaxMeasKeys)
    \X DictsUpTo(ParamSet, DocMeasEntries, MaxMeasKeys)

StructureInputs ==
    AiStructDicts([present : BOOLEAN, confidence : ConfidenceLevels], MaxStructs)
    \X DocStructDicts(MaxKeywords)

VerifyParams == {"BPD", "HC"}

VerifyInputs ==
    { << [biometry |-> b, structures_detected |-> s],
         [measurements |-> m, structures |-> d] >> :
        b \in DictsUpTo(VerifyParams, { [value |-> Some(470)] }, 2),
        m \in DictsUpTo(VerifyParams,
                        { [value |-> Some(470), mentioned |-> TRUE],
                          [value |-> Some(521), mentioned |-> TRUE] }, 2),
        s \in AiStructDicts({ [present |-> TRUE, confidence |-> 85],
                              [present |-> FALSE, confidence |-> 40] },
                            MaxStructs),
        d \in DocStructDicts(MaxKeywords) }

RateInputs == { [num |-> k, den |-> RateSteps] : k \in 0..RateSteps }

\* analyze_feature_presence gives a detected feature a confidence above 0.73
\* and a feature that is not detected one of at most 0.55
FindingInputs ==
    { f \in [detected : BOOLEAN, confidence : ConfidenceLevels] :
        f.detected <=> f.confidence > 73 }
    \X [mentioned : BOOLEAN, negated : BOOLEAN]

Images == { [bright_pixels |-> 0, modal_gap |-> 0],
            [bright_pixels |-> 40, modal_gap |-> 20] }

ImageFiles ==
    {None} \cup
    [ext : {".png", ".gif"}, size_mb : {1, 51}, corrupted : BOOLEAN,
     width : {99, 512}, height : {512}, image : Images]

ReportTexts ==
    [stripped_len : {0, 49, 50}, findings : {[measurements |-> EmptyDict,
                                              structures |-> EmptyDict]}]

ProcessArgs == ImageFiles \X ReportTexts \X BOOLEAN

\* the inputs of the calls in SpecSeq, where calls follow one another
SeqMeasurementInputs ==
    { i \in MeasurementInputs :
        /\ DOMAIN i[1] = {"BPD"} /\ i[1]["BPD"].value = Some(470)
        /\ DOMAIN i[2] = {"BPD"} /\ i[2]["BPD"].mentioned
        /\ i[2]["BPD"].value = Some(491) }

SeqStructureInputs ==
    { i \in StructureInputs :
        /\ DOMAIN i[1] = {"brain"} /\ DOMAIN i[1]["brain"] = {"skull"}
        /\ i[1]["brain"]["skull"].present
        /\ i[1]["brain"]["skull"].confidence \in {79, 80}
        /\ i[2] = EmptyDict }

SeqVerifyInputs ==
    { i \in VerifyInputs :
        /\ DOMAIN i[1].biometry \subseteq {"BPD"}
        /\ DOMAIN i[2].measurements \subseteq {"BPD"}
        /\ i[1].structures_detected = EmptyDict
        /\ i[2].structures = EmptyDict }

SeqRateInputs == { r \in RateInputs : r.num = RateSteps }

SeqFindingInputs ==
    { i \in FindingInputs :
        i[1].confidence \in {40, 85} /\ i[2].mentioned /\ ~i[2].negated }

SeqProcessArgs ==
    { a \in ProcessArgs :
        /\ a[1] # None /\ ValidateImage(a[1]) = None
        /\ a[1].image.bright_pixels > 0
        /\ a[2].stripped_len = 50
        /\ a[3] }

----------------------------------------------------------------------------
(* The state machine: calls on one engine and one pipeline *)

Init ==
    /\ engine \in { EngineInit(config) : config \in Configs }
    /\ pixel_to_mm = PIXEL_TO_MM_INIT
    /\ calls = <<>>
    /\ telemetry = <<>>
    /\ requests = <<>>

\* the call is recorded with its arguments and its outcome
Call(op, args, out) ==
    calls' = Append(calls, <<op, args, out>>)

\* the operation, the arguments and the outcome of a recorded call
Op(c) == c[1]

Args(c) == c[2]

Out(c) == c[3]

\* VerificationEngine.compare_measurements(ai_measurements, doctor_measurements)
CompareMeasurements(inputs, limit) ==
    /\ Len(calls) < limit
    /\ \E i \in inputs :
          Call("compare_measurements", i,
               Ret(CompareMeasurementsOp(engine, i[1], i[2])))
    /\ UNCHANGED <<engine, pixel_to_mm, telemetry, requests>>

\* VerificationEngine.compare_structures(ai_structures, doctor_structures)
CompareStructures(inputs, limit) ==
    /\ Len(calls) < limit
    /\ \E i \in inputs :
          Call("compare_structures", i, CompareStructuresOp(engine, i[1], i[2]))
    /\ UNCHANGED <<engine, pixel_to_mm, telemetry, requests>>

\* a verify that keeps state: it stores a tolerance of 1.0 mm for the
\* parameters it compared
VerifyStateful(inputs, limit) ==
    /\ Len(calls) < limit
    /\ \E i \in inputs :
          /\ Call("verify", i, VerifyOp(engine, i[1], i[2]))
          /\ engine' =
                [engine EXCEPT !.measurement_tolerance =
                    [p \in DOMAIN i[1].biometry |-> 10] @@ @]
    /\ UNCHANGED <<pixel_to_mm, telemetry, requests>>

\* VerificationEngine.verify(ai_findings, doctor_findings)
Verify(inputs, limit) ==
    /\ Len(calls) < limit
    /\ \E i \in inputs : Call("verify", i, VerifyOp(engine, i[1], i[2]))
    /\ UNCHANGED <<engine, pixel_to_mm, telemetry, requests>>

\* VerificationEngine.assess_risk_level(agreement_rate)
AssessRisk(inputs, limit) ==
    /\ Len(calls) < limit
    /\ \E rate \in inputs :
          Call("assess_risk_level", rate, Ret(AssessRiskLevel(rate)))
    /\ UNCHANGED <<engine, pixel_to_mm, telemetry, requests>>

\* radverify.comparison.compare_findings(ai_finding, report_findings)
CompareFindings(inputs, limit) ==
    /\ Len(calls) < limit
    /\ \E i \in inputs :
          Call("compare_findings", i, Ret(CompareFindingsOp(i[1], i[2])))
    /\ UNCHANGED <<engine, pixel_to_mm, telemetry, requests>>

\* RadVerifyPipeline.process(image_file, doctor_report_text, enhance_image)
Process(inputs, limit) ==
    /\ Len(calls) < limit
    /\ \E a \in inputs :
          LET finish(done) ==
                  /\ Call("process", a, Ret(done.results))
                  /\ pixel_to_mm' = done.pixel_to_mm
          IN  finish(ProcessOp(engine, pixel_to_mm, a[1], a[2], a[3]))
    /\ UNCHANGED <<engine, telemetry, requests>>

\* one call on a fresh engine, over the full input sets
Next ==
    \/ CompareMeasurements(MeasurementInputs, 1)
    \/ CompareStructures(StructureInputs, 1)
    \/ Verify(VerifyInputs, 1)
    \/ AssessRisk(RateInputs, 1)
    \/ CompareFindings(FindingInputs, 1)
    \/ Process(ProcessArgs, 1)

Spec == Init /\ [][Next]_vars

\* up to MaxCalls calls one after another on the same engine
NextSeq ==
    \/ CompareMeasurements(SeqMeasurementInputs, MaxCalls)
    \/ CompareStructures(SeqStructureInputs, MaxCalls)
    \/ Verify(SeqVerifyInputs, MaxCalls)
    \/ AssessRisk(SeqRateInputs, MaxCalls)
    \/ CompareFindings(SeqFindingInputs, MaxCalls)
    \/ Process(SeqProcessArgs, MaxCalls)

SpecSeq == Init /\ [][NextSeq]_vars

TypeOK ==
    /\ Len(calls) <= MaxCalls
    /\ pixel_to_mm > 0

----------------------------------------------------------------------------
(* Properties *)

\* the calls of an operation that returned
Returns(op) ==
    { i \in 1..Len(calls) : Op(calls[i]) = op /\ Returned(Out(calls[i])) }

\* the tolerance the engine applies to a parameter
ToleranceOf(param) ==
    IF param \in DOMAIN engine.measurement_tolerance
    THEN engine.measurement_tolerance[param]
    ELSE DEFAULT_TOLERANCE

\* the value a measurement dict carries for a parameter, None when it has none
ValueOf(measurements, param) ==
    IF param \in DOMAIN measurements /\ "value" \in DOMAIN measurements[param]
    THEN measurements[param].value
    ELSE None

MentionedIn(measurements, param) ==
    /\ param \in DOMAIN measurements
    /\ "mentioned" \in DOMAIN measurements[param]
    /\ measurements[param].mentioned

\* C1: compare_measurements, both sides carrying a value (zero included): the
\* status is 'match' with severity 'low' if |ai - report| <= tolerance and
\* 'mismatch' with severity 'high' otherwise.
C1_BothValuesMatchOrMismatch ==
    \A i \in Returns("compare_measurements") : \A p \in ParamSet :
        LET ai == ValueOf(Args(calls[i])[1], p)
            report == ValueOf(Args(calls[i])[2], p)
            result == Out(calls[i]).ret[p]
        IN  (ai # None /\ report # None) =>
                IF Abs(ai[1] - report[1]) <= ToleranceOf(p)
                THEN result.status = "match" /\ result.severity = "low"
                ELSE result.status = "mismatch" /\ result.severity = "high"

\* the AI is confidently present: present with confidence >= the threshold
Confident(present, confidence, high) == present /\ confidence >= high

\* the decision table of C2 on one comparison
C2_Table(confident, mentioned, negated, status, severity) ==
    /\ (confident /\ mentioned /\ ~negated) => status = "match"
    /\ (confident /\ ~mentioned) => status = "omission" /\ severity = "medium"
    /\ (~confident /\ mentioned /\ ~negated) =>
           status = "overstatement" /\ severity = "medium"

\* C2: the structure decision table (match, omission, overstatement) holds
\* for compare_structures and for compare_findings, confident presence being
\* presence with confidence >= the high-confidence threshold.
C2_StructureDecisionTable ==
    /\ \A i \in Returns("compare_structures") :
         \A c \in DOMAIN Out(calls[i]).ret : \A s \in DOMAIN Out(calls[i]).ret[c] :
            LET ai == Args(calls[i])[1][c][s]
                result == Out(calls[i]).ret[c][s]
            IN  C2_Table(ai.present /\
                           ai.confidence >= engine.confidence_thresholds["high"],
                         result.doctor_mentioned, result.doctor_negated,
                         result.status, result.severity)
    /\ \A i \in Returns("compare_findings") :
            LET ai == Args(calls[i])[1]
                report == Args(calls[i])[2]
            IN  C2_Table(Confident(ai.detected, ai.confidence, CONFIDENCE_HIGH),
                         report.mentioned, report.negated,
                         Out(calls[i]).ret.status, "medium")

\* C3: AI confidently present and the report negates it: the status is
\* 'contradiction' with severity high, in compare_structures and in
\* compare_findings alike.
C3_ContradictionUniform ==
    /\ \A i \in Returns("compare_structures") :
         \A c \in DOMAIN Out(calls[i]).ret : \A s \in DOMAIN Out(calls[i]).ret[c] :
            LET ai == Args(calls[i])[1][c][s]
                result == Out(calls[i]).ret[c][s]
            IN  (/\ ai.present
                 /\ ai.confidence >= engine.confidence_thresholds["high"]
                 /\ result.doctor_mentioned /\ result.doctor_negated)
                => result.status = "contradiction" /\ result.severity = "high"
    /\ \A i \in Returns("compare_findings") :
            LET ai == Args(calls[i])[1]
                report == Args(calls[i])[2]
            IN  (/\ Confident(ai.detected, ai.confidence, CONFIDENCE_HIGH)
                 /\ report.mentioned /\ report.negated)
                => Out(calls[i]).ret.status = "contradiction"

\* C4: agreement on absence: a measurement with no AI value that the report
\* does not mention is 'not_assessed' (severity low); a structure the AI does
\* not confidently detect and the report does not mention, or negates, is
\* 'match_absent'.
C4_AgreementOnAbsence ==
    /\ \A i \in Returns("compare_measurements") : \A p \in ParamSet :
         (/\ ValueOf(Args(calls[i])[1], p) = None
          /\ ValueOf(Args(calls[i])[2], p) = None
          /\ ~MentionedIn(Args(calls[i])[2], p))
         => /\ Out(calls[i]).ret[p].status = "not_assessed"
            /\ Out(calls[i]).ret[p].severity = "low"
    /\ \A i \in Returns("compare_structures") :
         \A c \in DOMAIN Out(calls[i]).ret : \A s \in DOMAIN Out(calls[i]).ret[c] :
            LET ai == Args(calls[i])[1][c][s]
                result == Out(calls[i]).ret[c][s]
            IN  (/\ ~(ai.present /\
                      ai.confidence >= engine.confidence_thresholds["high"])
                 /\ (~result.doctor_mentioned \/ result.doctor_negated))
                => result.status = "match_absent"
    /\ \A i \in Returns("compare_findings") :
            LET ai == Args(calls[i])[1]
                report == Args(calls[i])[2]
            IN  (/\ ~Confident(ai.detected, ai.confidence, CONFIDENCE_HIGH)
                 /\ (~report.mentioned \/ report.negated))
                => Out(calls[i]).ret.status = "match_absent"

\* C5: compare_measurements: an AI value the report does not mention at all
\* is an 'omission' (medium); a value the report mentions where the AI has
\* none is an 'overstatement' (medium); 'not_assessed' is produced only when
\* neither side has a value.
C5_OmissionOverstatement ==
    \A i \in Returns("compare_measurements") : \A p \in ParamSet :
        LET ai == ValueOf(Args(calls[i])[1], p)
            report == ValueOf(Args(calls[i])[2], p)
            mentioned == MentionedIn(Args(calls[i])[2], p)
            result == Out(calls[i]).ret[p]
        IN  /\ (ai # None /\ report = None /\ ~mentioned) =>
                   result.status = "omission" /\ result.severity = "medium"
            /\ (ai = None /\ report # None /\ mentioned) =>
                   result.status = "overstatement" /\ result.severity = "medium"
            /\ result.status = "not_assessed" => (ai = None /\ report = None)

\* the comparison results of a verify summary, measurements and structures,
\* as (kind, category, key, status)
ResultsOf(summary) ==
    { <<"measurement", "", p, summary.measurement_comparisons[p].status>> :
        p \in DOMAIN summary.measurement_comparisons }
    \cup
    { <<"structure", i[1], i[2],
        summary.structure_comparisons[i[1]][i[2]].status>> :
        i \in StructureItems(summary.structure_comparisons) }

\* the results that were categorized
Categorized(summary) == { r \in ResultsOf(summary) : r[4] # "not_assessed" }

IsAgreement(status) == status \in {"match", "match_absent"}

\* C6 as stated: the agreement_rate verify returns (in thousandths) lies in
\* [0, 1] and is 1.0 if and only if every categorized result is a
\* match/match_absent; an omission makes it strictly less than 1.0.
C6_RateOneIffAllAgree ==
    \A i \in Returns("verify") :
        LET summary == Out(calls[i]).ret
        IN  /\ summary.agreement_rate \in 0..1000
            /\ (summary.agreement_rate = 1000)
                   <=> (\A r \in Categorized(summary) : IsAgreement(r[4]))
            /\ (\E r \in ResultsOf(summary) : r[4] = "omission")
                   => summary.agreement_rate < 1000

\* C6 amended: the agreement_rate lies in [0, 1] and is 1.0 if and only if
\* something was categorized and every categorized result is a
\* match/match_absent (with nothing categorized it is 0.0); an omission makes
\* it strictly less than 1.0.
C6_RateOneIffSomeAndAllAgree ==
    \A i \in Returns("verify") :
        LET summary == Out(calls[i]).ret
        IN  /\ summary.agreement_rate \in 0..1000
            /\ (summary.agreement_rate = 1000)
                   <=> (/\ Categorized(summary) # {}
                        /\ \A r \in Categorized(summary) : IsAgreement(r[4]))
            /\ Categorized(summary) = {} => summary.agreement_rate = 0
            /\ (\E r \in ResultsOf(summary) : r[4] = "omission")
                   => summary.agreement_rate < 1000

\* a verify call returned results among which one is an omission and another
\* a match
C6_Witness ==
    \E i \in Returns("verify") :
        /\ \E r \in ResultsOf(Out(calls[i]).ret) : r[4] = "omission"
        /\ \E r \in ResultsOf(Out(calls[i]).ret) : r[4] = "match"
        /\ Out(calls[i]).ret.agreement_rate \in 1..999

\* the status each discrepancy count stands for
StatusOfKey ==
    [matches |-> "match", omissions |-> "omission",
     mismatches |-> "mismatch", overstatements |-> "overstatement"]

\* C7: each discrepancy count of the summary equals the number of
\* measurement and structure results with that status, and agreement_rate is
\* matches / (the sum of the counts) whenever the sum is positive.
C7_CountsEveryResult ==
    \A i \in Returns("verify") :
        LET summary == Out(calls[i]).ret
            counts == summary.discrepancy_counts
            total == counts.matches + counts.omissions + counts.mismatches
                     + counts.overstatements
        IN  /\ \A key \in DOMAIN StatusOfKey :
                 counts[key] =
                     Cardinality({ r \in ResultsOf(summary) :
                                     r[4] = StatusOfKey[key] })
            /\ total > 0 =>
                 summary.agreement_rate =
                     Round3([num |-> counts.matches, den |-> total])

\* low < medium < high
RiskRank(level) ==
    CASE level = "low" -> 0
      [] level = "medium" -> 1
      [] level = "high" -> 2

\* C8: risk_level is 'low' for a rate >= 0.85, 'medium' for a rate >= 0.70
\* and < 0.85, 'high' otherwise, in assess_risk_level and in the summary of
\* verify; no higher rate has a higher risk level; with nothing categorized
\* the rate is 0 and the level 'high'.
C8_RiskFromRate ==
    /\ \A i \in Returns("assess_risk_level") :
         LET rate == Args(calls[i])
             level == Out(calls[i]).ret
         IN  /\ level = "low" <=> 20 * rate.num >= 17 * rate.den
             /\ level = "medium" <=> (/\ 10 * rate.num >= 7 * rate.den
                                      /\ 20 * rate.num < 17 * rate.den)
             /\ level = "high" <=> 10 * rate.num < 7 * rate.den
             /\ \A higher \in RateInputs :
                  higher.num * rate.den >= rate.num * higher.den
                  => RiskRank(AssessRiskLevel(higher)) <= RiskRank(level)
    /\ \A i \in Returns("verify") :
         LET summary == Out(calls[i]).ret
         IN  /\ summary.risk_level =
                  IF summary.agreement_rate >= 850 THEN "low"
                  ELSE IF summary.agreement_rate >= 700 THEN "medium"
                  ELSE "high"
             /\ Categorized(summary) = {} =>
                  summary.agreement_rate = 0 /\ summary.risk_level = "high"

\* verify returned a summary with three agreements in four: 'medium'
C8_Witness ==
    \E i \in Returns("verify") :
        /\ Out(calls[i]).ret.agreement_rate = 750
        /\ Out(calls[i]).ret.risk_level = "medium"

\* the operations of the comparison engine
EngineOps ==
    {"compare_measurements", "compare_structures", "verify",
     "assess_risk_level", "compare_findings"}

\* C9: a call of the comparison engine (verify, compare_findings and the
\* methods they are made of) leaves the engine's configuration unchanged and
\* returns what every earlier call with the same arguments returned,
\* whatever was called in between.
C9_Step ==
    /\ engine' = engine
    /\ Len(calls') = Len(calls) + 1
    /\ \A i \in 1..Len(calls) : calls'[i] = calls[i]
    /\ LET new == calls'[Len(calls')]
       IN  Op(new) \in EngineOps =>
             \A i \in 1..Len(calls) :
                (Op(calls[i]) = Op(new) /\ Args(calls[i]) = Args(new))
                => Out(calls[i]) = Out(new)

C9_EngineIsPure == [][C9_Step]_vars

\* verify was called twice with the same arguments, with a call of another
\* operation in between
C9_Witness ==
    /\ Len(calls) = 3
    /\ Op(calls[1]) = "verify" /\ Op(calls[3]) = "verify"
    /\ Op(calls[2]) \notin {"verify", "process"}
    /\ Args(calls[1]) = Args(calls[3])
    /\ Returned(Out(calls[3]))

\* C10: the pipeline run on an accepted image and report produces comparison
\* results and a summary, and two runs on the same inputs produce the same
\* ones.
C10_PipelineDeterministic ==
    \A i \in 1..Len(calls) :
        Op(calls[i]) = "process" =>
            /\ ProcessInputs(Args(calls[i])[1], Args(calls[i])[2]).valid =>
                 /\ Out(calls[i]).ret.success
                 /\ "verification_results" \in DOMAIN Out(calls[i]).ret
            /\ \A j \in 1..Len(calls) :
                 (Op(calls[j]) = "process" /\ Args(calls[j]) = Args(calls[i]))
                 => Out(calls[j]) = Out(calls[i])

----------------------------------------------------------------------------
(* Python strings, as sequences of characters *)

\* the characters of the string literals of the source and of the file names
\* and report texts the calls below are given
Text ==
    ("calcification" :>
         <<"c", "a", "l", "c", "i", "f", "i", "c", "a", "t", "i", "o", "n">>) @@
    ("calcified focus" :>
         <<"c", "a", "l", "c", "i", "f", "i", "e", "d", " ", "f", "o",
            "c", "u", "s">>) @@
    ("calcifications" :>
         <<"c", "a", "l", "c", "i", "f", "i", "c", "a", "t", "i", "o",
            "n", "s">>) @@
    ("no" :>
         <<"n", "o">>) @@
    ("without" :>
         <<"w", "i", "t", "h", "o", "u", "t">>) @@
    ("absent" :>
         <<"a", "b", "s", "e", "n", "t">>) @@
    ("denies" :>
         <<"d", "e", "n", "i", "e", "s">>) @@
    ("normal" :>
         <<"n", "o", "r", "m", "a", "l">>) @@
    ("adequate" :>
         <<"a", "d", "e", "q", "u", "a", "t", "e">>) @@
    ("clear" :>
         <<"c", "l", "e", "a", "r">>) @@
    ("intact" :>
         <<"i", "n", "t", "a", "c", "t">>) @@
    ("stable" :>
         <<"s", "t", "a", "b", "l", "e">>) @@
    ("unremarkable" :>
         <<"u", "n", "r", "e", "m", "a", "r", "k", "a", "b", "l", "e">>) @@
    ("not" :>
         <<"n", "o", "t">>) @@
    ("negative" :>
         <<"n", "e", "g", "a", "t", "i", "v", "e">>) @@
    ("no evidence of" :>
         <<"n", "o", " ", "e", "v", "i", "d", "e", "n", "c", "e", " ",
            "o", "f">>) @@
    ("fails to demonstrate" :>
         <<"f", "a", "i", "l", "s", " ", "t", "o", " ", "d", "e", "m",
            "o", "n", "s", "t", "r", "a", "t", "e">>) @@
    ("does not show" :>
         <<"d", "o", "e", "s", " ", "n", "o", "t", " ", "s", "h", "o", "w">>) @@
    ("possible" :>
         <<"p", "o", "s", "s", "i", "b", "l", "e">>) @@
    ("probable" :>
         <<"p", "r", "o", "b", "a", "b", "l", "e">>) @@
    ("likely" :>
         <<"l", "i", "k", "e", "l", "y">>) @@
    ("suggests" :>
         <<"s", "u", "g", "g", "e", "s", "t", "s">>) @@
    ("may indicate" :>
         <<"m", "a", "y", " ", "i", "n", "d", "i", "c", "a", "t", "e">>) @@
    ("appears" :>
         <<"a", "p", "p", "e", "a", "r", "s">>) @@
    ("seems" :>
         <<"s", "e", "e", "m", "s">>) @@
    ("questionable" :>
         <<"q", "u", "e", "s", "t", "i", "o", "n", "a", "b", "l", "e">>) @@
    ("uncertain" :>
         <<"u", "n", "c", "e", "r", "t", "a", "i", "n">>) @@
    ("brain" :>
         <<"b", "r", "a", "i", "n">>) @@
    ("skull" :>
         <<"s", "k", "u", "l", "l">>) @@
    ("cranium" :>
         <<"c", "r", "a", "n", "i", "u", "m">>) @@
    ("ventricle" :>
         <<"v", "e", "n", "t", "r", "i", "c", "l", "e">>) @@
    ("cerebellum" :>
         <<"c", "e", "r", "e", "b", "e", "l", "l", "u", "m">>) @@
    ("cavum septum pellucidum" :>
         <<"c", "a", "v", "u", "m", " ", "s", "e", "p", "t", "u", "m",
            " ", "p", "e", "l", "l", "u", "c", "i", "d", "u", "m">>) @@
    ("heart" :>
         <<"h", "e", "a", "r", "t">>) @@
    ("cardiac" :>
         <<"c", "a", "r", "d", "i", "a", "c">>) @@
    ("four-chamber" :>
         <<"f", "o", "u", "r", "-", "c", "h", "a", "m", "b", "e", "r">>) @@
    ("atrium" :>
         <<"a", "t", "r", "i", "u", "m">>) @@
    ("spine" :>
         <<"s", "p", "i", "n", "e">>) @@
    ("spinal" :>
         <<"s", "p", "i", "n", "a", "l">>) @@
    ("vertebra" :>
         <<"v", "e", "r", "t", "e", "b", "r", "a">>) @@
    ("vertebrae" :>
         <<"v", "e", "r", "t", "e", "b", "r", "a", "e">>) @@
    ("face" :>
         <<"f", "a", "c", "e">>) @@
    ("facial" :>
         <<"f", "a", "c", "i", "a", "l">>) @@
    ("profile" :>
         <<"p", "r", "o", "f", "i", "l", "e">>) @@
    ("nasal bone" :>
         <<"n", "a", "s", "a", "l", " ", "b", "o", "n", "e">>) @@
    ("lip" :>
         <<"l", "i", "p">>) @@
    ("lips" :>
         <<"l", "i", "p", "s">>) @@
    ("stomach" :>
         <<"s", "t", "o", "m", "a", "c", "h">>) @@
    ("kidney" :>
         <<"k", "i", "d", "n", "e", "y">>) @@
    ("kidneys" :>
         <<"k", "i", "d", "n", "e", "y", "s">>) @@
    ("bladder" :>
         <<"b", "l", "a", "d", "d", "e", "r">>) @@
    ("liver" :>
         <<"l", "i", "v", "e", "r">>) @@
    ("arm" :>
         <<"a", "r", "m">>) @@
    ("arms" :>
         <<"a", "r", "m", "s">>) @@
    ("leg" :>
         <<"l", "e", "g">>) @@
    ("legs" :>
         <<"l", "e", "g", "s">>) @@
    ("hand" :>
         <<"h", "a", "n", "d">>) @@
    ("hands" :>
         <<"h", "a", "n", "d", "s">>) @@
    ("foot" :>
         <<"f", "o", "o", "t">>) @@
    ("feet" :>
         <<"f", "e", "e", "t">>) @@
    ("limb" :>
         <<"l", "i", "m", "b">>) @@
    ("limbs" :>
         <<"l", "i", "m", "b", "s">>) @@
    ("placenta" :>
         <<"p", "l", "a", "c", "e", "n", "t", "a">>) @@
    ("placental" :>
         <<"p", "l", "a", "c", "e", "n", "t", "a", "l">>) @@
    ("amniotic fluid" :>
         <<"a", "m", "n", "i", "o", "t", "i", "c", " ", "f", "l", "u",
            "i", "d">>) @@
    ("liquor" :>
         <<"l", "i", "q", "u", "o", "r">>) @@
    ("fluid volume" :>
         <<"f", "l", "u", "i", "d", " ", "v", "o", "l", "u", "m", "e">>) @@
    ("umbilical cord" :>
         <<"u", "m", "b", "i", "l", "i", "c", "a", "l", " ", "c", "o",
            "r", "d">>) @@
    ("cord" :>
         <<"c", "o", "r", "d">>) @@
    ("jpg" :>
         <<"j", "p", "g">>) @@
    ("jpeg" :>
         <<"j", "p", "e", "g">>) @@
    ("png" :>
         <<"p", "n", "g">>) @@
    ("scan.png" :>
         <<"s", "c", "a", "n", ".", "p", "n", "g">>) @@
    ("scan.PNG" :>
         <<"s", "c", "a", "n", ".", "P", "N", "G">>) @@
    ("scan.gif" :>
         <<"s", "c", "a", "n", ".", "g", "i", "f">>) @@
    ("scan" :>
         <<"s", "c", "a", "n">>) @@
    ("scan.jpg" :>
         <<"s", "c", "a", "n", ".", "j", "p", "g">>) @@
    ("unknown" :>
         <<"u", "n", "k", "n", "o", "w", "n">>) @@
    ("needs_review" :>
         <<"n", "e", "e", "d", "s", "_", "r", "e", "v", "i", "e", "w">>) @@
    ("needs review" :>
         <<"n", "e", "e", "d", "s", " ", "r", "e", "v", "i", "e", "w">>) @@
    ("Skull: normal shape." :>
         <<"S", "k", "u", "l", "l", ":", " ", "n", "o", "r", "m", "a",
            "l", " ", "s", "h", "a", "p", "e", ".">>) @@
    ("No abnormality of the heart is seen in any of the views obtained today." :>
         <<"N", "o", " ", "a", "b", "n", "o", "r", "m", "a", "l", "i",
            "t", "y", " ", "o", "f", " ", "t", "h", "e", " ", "h", "e",
            "a", "r", "t", " ", "i", "s", " ", "s", "e", "e", "n", " ",
            "i", "n", " ", "a", "n", "y", " ", "o", "f", " ", "t", "h",
            "e", " ", "v", "i", "e", "w", "s", " ", "o", "b", "t", "a",
            "i", "n", "e", "d", " ", "t", "o", "d", "a", "y", ".">>) @@
    ("Heart is seen! Spine not visualised." :>
         <<"H", "e", "a", "r", "t", " ", "i", "s", " ", "s", "e", "e",
            "n", "!", " ", "S", "p", "i", "n", "e", " ", "n", "o", "t",
            " ", "v", "i", "s", "u", "a", "l", "i", "s", "e", "d", ".">>) @@
    ("The heart is seen. The heart is absent from the second view?" :>
         <<"T", "h", "e", " ", "h", "e", "a", "r", "t", " ", "i", "s",
            " ", "s", "e", "e", "n", ".", " ", "T", "h", "e", " ", "h",
            "e", "a", "r", "t", " ", "i", "s", " ", "a", "b", "s", "e",
            "n", "t", " ", "f", "r", "o", "m", " ", "t", "h", "e", " ",
            "s", "e", "c", "o", "n", "d", " ", "v", "i", "e", "w", "?">>) @@
    ("Possible placental lake. Stomach and bladder seen" :>
         <<"P", "o", "s", "s", "i", "b", "l", "e", " ", "p", "l", "a",
            "c", "e", "n", "t", "a", "l", " ", "l", "a", "k", "e", ".",
            " ", "S", "t", "o", "m", "a", "c", "h", " ", "a", "n", "d",
            " ", "b", "l", "a", "d", "d", "e", "r", " ", "s", "e", "e", "n">>) @@
    ("Cord has three vessels." :>
         <<"C", "o", "r", "d", " ", "h", "a", "s", " ", "t", "h", "r",
            "e", "e", " ", "v", "e", "s", "s", "e", "l", "s", ".">>) @@
    ("No possible spine defect." :>
         <<"N", "o", " ", "p", "o", "s", "s", "i", "b", "l", "e", " ",
            "s", "p", "i", "n", "e", " ", "d", "e", "f", "e", "c", "t", ".">>) @@
    ("Skull measures 4.5 cm with no defect." :>
         <<"S", "k", "u", "l", "l", " ", "m", "e", "a", "s", "u", "r",
            "e", "s", " ", "4", ".", "5", " ", "c", "m", " ", "w", "i",
            "t", "h", " ", "n", "o", " ", "d", "e", "f", "e", "c", "t", ".">>) @@
    ("BPD: 47.2 mm. Amniotic fluid is adequate." :>
         <<"B", "P", "D", ":", " ", "4", "7", ".", "2", " ", "m", "m",
            ".", " ", "A", "m", "n", "i", "o", "t", "i", "c", " ", "f",
            "l", "u", "i", "d", " ", "i", "s", " ", "a", "d", "e", "q",
            "u", "a", "t", "e", ".">>) @@
    ("Four-chamber view of the heart seen." :>
         <<"F", "o", "u", "r", "-", "c", "h", "a", "m", "b", "e", "r",
            " ", "v", "i", "e", "w", " ", "o", "f", " ", "t", "h", "e",
            " ", "h", "e", "a", "r", "t", " ", "s", "e", "e", "n", ".">>) @@
    ("" :>
         <<>>) @@
    ("  \n " :>
         <<" ", " ", "\n", " ">>) @@
    ("No calcifications are seen. Findings are otherwise normal." :>
         <<"N", "o", " ", "c", "a", "l", "c", "i", "f", "i", "c", "a",
            "t", "i", "o", "n", "s", " ", "a", "r", "e", " ", "s", "e",
            "e", "n", ".", " ", "F", "i", "n", "d", "i", "n", "g", "s",
            " ", "a", "r", "e", " ", "o", "t", "h", "e", "r", "w", "i",
            "s", "e", " ", "n", "o", "r", "m", "a", "l", ".">>) @@
    ("Calcification is noted in the placenta." :>
         <<"C", "a", "l", "c", "i", "f", "i", "c", "a", "t", "i", "o",
            "n", " ", "i", "s", " ", "n", "o", "t", "e", "d", " ", "i",
            "n", " ", "t", "h", "e", " ", "p", "l", "a", "c", "e", "n",
            "t", "a", ".">>) @@
    ("Placenta is clear and intact." :>
         <<"P", "l", "a", "c", "e", "n", "t", "a", " ", "i", "s", " ",
            "c", "l", "e", "a", "r", " ", "a", "n", "d", " ", "i", "n",
            "t", "a", "c", "t", ".">>) @@
    ("No evidence on any of the acquired views of calcification." :>
         <<"N", "o", " ", "e", "v", "i", "d", "e", "n", "c", "e", " ",
            "o", "n", " ", "a", "n", "y", " ", "o", "f", " ", "t", "h",
            "e", " ", "a", "c", "q", "u", "i", "r", "e", "d", " ", "v",
            "i", "e", "w", "s", " ", "o", "f", " ", "c", "a", "l", "c",
            "i", "f", "i", "c", "a", "t", "i", "o", "n", ".">>) @@
    ("Calcification was suspected on the earlier study but there is no calcification today." :>
         <<"C", "a", "l", "c", "i", "f", "i", "c", "a", "t", "i", "o",
            "n", " ", "w", "a", "s", " ", "s", "u", "s", "p", "e", "c",
            "t", "e", "d", " ", "o", "n", " ", "t", "h", "e", " ", "e",
            "a", "r", "l", "i", "e", "r", " ", "s", "t", "u", "d", "y",
            " ", "b", "u", "t", " ", "t", "h", "e", "r", "e", " ", "i",
            "s", " ", "n", "o", " ", "c", "a", "l", "c", "i", "f", "i",
            "c", "a", "t", "i", "o", "n", " ", "t", "o", "d", "a", "y", ".">>) @@
    ("Calcification seen. No mass." :>
         <<"C", "a", "l", "c", "i", "f", "i", "c", "a", "t", "i", "o",
            "n", " ", "s", "e", "e", "n", ".", " ", "N", "o", " ", "m",
            "a", "s", "s", ".">>) @@
    ("Nothing abnormal; calcified focus noted." :>
         <<"N", "o", "t", "h", "i", "n", "g", " ", "a", "b", "n", "o",
            "r", "m", "a", "l", ";", " ", "c", "a", "l", "c", "i", "f",
            "i", "e", "d", " ", "f", "o", "c", "u", "s", " ", "n", "o",
            "t", "e", "d", ".">>) @@
    (" The scan  DENIES\ncalcification. " :>
         <<" ", "T", "h", "e", " ", "s", "c", "a", "n", " ", " ", "D",
            "E", "N", "I", "E", "S", "\n", "c", "a", "l", "c", "i", "f",
            "i", "c", "a", "t", "i", "o", "n", ".", " ">>) @@
    ("No focus in any of the image, calcification." :>
         <<"N", "o", " ", "f", "o", "c", "u", "s", " ", "i", "n", " ",
            "a", "n", "y", " ", "o", "f", " ", "t", "h", "e", " ", "i",
            "m", "a", "g", "e", ",", " ", "c", "a", "l", "c", "i", "f",
            "i", "c", "a", "t", "i", "o", "n", ".">>) @@
    ("No focus in any of the images, calcification." :>
         <<"N", "o", " ", "f", "o", "c", "u", "s", " ", "i", "n", " ",
            "a", "n", "y", " ", "o", "f", " ", "t", "h", "e", " ", "i",
            "m", "a", "g", "e", "s", ",", " ", "c", "a", "l", "c", "i",
            "f", "i", "c", "a", "t", "i", "o", "n", ".">>) @@
    ("Piano key sign in the far field, calcification." :>
         <<"P", "i", "a", "n", "o", " ", "k", "e", "y", " ", "s", "i",
            "g", "n", " ", "i", "n", " ", "t", "h", "e", " ", "f", "a",
            "r", " ", "f", "i", "e", "l", "d", ",", " ", "c", "a", "l",
            "c", "i", "f", "i", "c", "a", "t", "i", "o", "n", ".">>) @@
    ("Calcification is seen at the upper pole of the placenta. There is no calcified focus." :>
         <<"C", "a", "l", "c", "i", "f", "i", "c", "a", "t", "i", "o",
            "n", " ", "i", "s", " ", "s", "e", "e", "n", " ", "a", "t",
            " ", "t", "h", "e", " ", "u", "p", "p", "e", "r", " ", "p",
            "o", "l", "e", " ", "o", "f", " ", "t", "h", "e", " ", "p",
            "l", "a", "c", "e", "n", "t", "a", ".", " ", "T", "h", "e",
            "r", "e", " ", "i", "s", " ", "n", "o", " ", "c", "a", "l",
            "c", "i", "f", "i", "e", "d", " ", "f", "o", "c", "u", "s", ".">>) @@
    ("bpd" :>
         <<"b", "p", "d">>) @@
    ("biparietal diameter" :>
         <<"b", "i", "p", "a", "r", "i", "e", "t", "a", "l", " ", "d",
            "i", "a", "m", "e", "t", "e", "r">>) @@
    ("hc" :>
         <<"h", "c">>) @@
    ("head circumference" :>
         <<"h", "e", "a", "d", " ", "c", "i", "r", "c", "u", "m", "f",
            "e", "r", "e", "n", "c", "e">>) @@
    ("ac" :>
         <<"a", "c">>) @@
    ("abdominal circumference" :>
         <<"a", "b", "d", "o", "m", "i", "n", "a", "l", " ", "c", "i",
            "r", "c", "u", "m", "f", "e", "r", "e", "n", "c", "e">>) @@
    ("fl" :>
         <<"f", "l">>) @@
    ("femur length" :>
         <<"f", "e", "m", "u", "r", " ", "l", "e", "n", "g", "t", "h">>) @@
    ("femoral length" :>
         <<"f", "e", "m", "o", "r", "a", "l", " ", "l", "e", "n", "g",
            "t", "h">>)

UpperCase ==
    <<"A", "B", "C", "D", "E", "F", "G", "H", "I", "J", "K", "L", "M",
      "N", "O", "P", "Q", "R", "S", "T", "U", "V", "W", "X", "Y", "Z">>

LowerCase ==
    <<"a", "b", "c", "d", "e", "f", "g", "h", "i", "j", "k", "l", "m",
      "n", "o", "p", "q", "r", "s", "t", "u", "v", "w", "x", "y", "z">>

Digits == {"0", "1", "2", "3", "4", "5", "6", "7", "8", "9"}

Range(s) == { s[i] : i \in DOMAIN s }

\* str.lower()
Lower(s) ==
    [i \in 1..Len(s) |->
        IF s[i] \in Range(UpperCase)
        THEN LowerCase[CHOOSE k \in 1..26 : UpperCase[k] = s[i]]
        ELSE s[i]]

\* \s of the re module
IsSpace(c) == c \in {" ", "\n", "\t"}

\* \w of the re module
IsWordChar(c) ==
    c \in Range(UpperCase) \cup Range(LowerCase) \cup Digits \cup {"_"}

\* str.strip()
Strip(s) ==
    LET keep == { i \in 1..Len(s) : ~IsSpace(s[i]) }
    IN  IF keep = {} THEN <<>> ELSE SubSeq(s, SetMin(keep), SetMax(keep))

\* re.sub(r"\s+", " ", s): every run of whitespace becomes one space, i.e.
\* a whitespace character that follows another one is dropped and the others
\* become spaces
CollapseWhitespace(s) ==
    LET dropped == { i \in 2..Len(s) : IsSpace(s[i]) /\ IsSpace(s[i - 1]) }
        place(k) ==
            CHOOSE i \in k..(k + Cardinality(dropped)) :
                /\ i \notin dropped
                /\ i - Cardinality({ j \in dropped : j < i }) = k
    IN  [k \in 1..(Len(s) - Cardinality(dropped)) |->
            IF IsSpace(s[place(k)]) THEN " " ELSE s[place(k)]]

\* the places (counted from 0) where keyword occurs in text
Occurrences(text, keyword) ==
    { i \in 0..(Len(text) - Len(keyword)) :
        SubSeq(text, i + 1, i + Len(keyword)) = keyword }

\* str.find(keyword): the first place, or -1
Find(text, keyword) ==
    IF Occurrences(text, keyword) = {} THEN -1
    ELSE SetMin(Occurrences(text, keyword))

\* text[start:end]
Slice(text, start, end) == SubSeq(text, start + 1, end)

\* \b of the re module at place i (counted from 0) of text: a word character
\* on exactly one side
WordBoundary(text, i) ==
    LET before == i >= 1 /\ IsWordChar(text[i])
        after == i < Len(text) /\ IsWordChar(text[i + 1])
    IN  before # after

\* re.compile(r"\b(w1|w2|...)\b", re.IGNORECASE).search(text) finds a match
SearchWords(words, text) ==
    \E w \in words : \E i \in Occurrences(Lower(text), Text[w]) :
        WordBoundary(text, i) /\ WordBoundary(text, i + Len(Text[w]))

----------------------------------------------------------------------------
(* radverify.input_handler, radverify.preprocess, radverify.ai_analysis,
   radverify.ai_report *)

ALLOWED_FORMATS == {"jpg", "jpeg", "png"}

\* an exception of class cls whose str() is detail
Error(cls, detail) == Raise([class |-> cls, detail |-> detail])

\* the string whose characters are chars
StrOf(chars) == CHOOSE k \in DOMAIN Text : Text[k] = chars

\* Path(filename).suffix.lower().lstrip("."), for a name without directories:
\* a file name is a run of pad letters followed by the characters of tail
Suffix(filename) ==
    LET name == Text[filename.tail]
        dots == { i \in 2..Len(name) : name[i] = "." }
    IN  IF dots = {} THEN <<>>
        ELSE Lower(SubSeq(name, SetMax(dots) + 1, Len(name)))

\* _clean_report_text
CleanReportText(report_text) == CollapseWhitespace(Strip(report_text))

\* prepare_inputs: the uploaded file is None or holds a name (or None), its
\* bytes ("empty", "garbage" or "image") and the image the bytes decode to
PrepareInputs(uploaded_file, report_text) ==
    LET cleaned_report == CleanReportText(Text[report_text])
        filename == IF uploaded_file.name # None
                    THEN uploaded_file.name[1]
                    ELSE [pad |-> 0, tail |-> "scan.jpg"]
        suffix == Suffix(filename)
    IN  IF uploaded_file = None
        THEN Error("ValueError", "An image must be uploaded for verification.")
        ELSE IF cleaned_report = <<>>
        THEN Error("ValueError", "Radiology report text cannot be empty.")
        ELSE IF suffix \notin { Text[f] : f \in ALLOWED_FORMATS }
        THEN Error("ValueError", "Unsupported image format")
        ELSE IF uploaded_file.raw_bytes = "empty"
        THEN Error("ValueError", "Uploaded image contains no data.")
        ELSE IF uploaded_file.raw_bytes = "garbage"
        THEN Error("ValueError", "Failed to decode image.")
        ELSE Ret([payload |->
                     [metadata |->
                         [filename |-> IF uploaded_file.name # None
                                       THEN uploaded_file.name[1]
                                       ELSE [pad |-> 0, tail |-> "scan"]],
                      raw_image |-> uploaded_file.image,
                      cleaned_report |-> cleaned_report],
                  notes |-> <<"File extension validated.",
                              "Image decoded via OpenCV.",
                              "Report text cleaned (whitespace collapsed).">>])

MAX_DIMENSION == 1024

\* the number of binary digits of n >= 1
BitLength(n) == SetMin({ b \in 1..30 : n < 2^b })

\* x * y modulo m
MulMod(x, y, m) == (x * y) % m

\* what the division of 2^(52+b) by longest_edge leaves, b being the bit
\* length of longest_edge and a = 2^13 modulo longest_edge
ScaleRemainder(a, b, longest_edge) ==
    MulMod(MulMod(MulMod(a, a, longest_edge), MulMod(a, a, longest_edge),
                  longest_edge),
           (2^b) % longest_edge, longest_edge)

\* int() of the double nearest to T * (1 - r / 2^(52+b)), for an integer T
\* of j + 1 binary digits: T when the product lies at most half the distance
\* from T to the double before it below T, and T - 1 otherwise
RoundedProduct(T, r, b, j) ==
    IF 2^j = T
    THEN (IF 4 * r <= 2^b THEN T ELSE T - 1)
    ELSE (IF T * r <= 2^(j + b - 1) THEN T ELSE T - 1)

\* int(side * scale) with scale = MAX_DIMENSION / float(longest_edge), in
\* IEEE double arithmetic, for longest_edge > MAX_DIMENSION = 2^10. The
\* quotient 2^(52+b) / longest_edge is rounded to the nearest integer to give
\* the 53 digits of scale. When side * 1024 / longest_edge is not an integer
\* the two roundings cannot carry the product across an integer and the
\* result is the quotient rounded down. When it is an integer T, the result
\* is T if scale is exact or was rounded up, and else RoundedProduct.
ScaledSide(side, longest_edge) ==
    IF \/ (side * MAX_DIMENSION) % longest_edge # 0
       \/ 2^(BitLength(longest_edge) - 1) = longest_edge
       \/ 2 * ScaleRemainder((2^13) % longest_edge, BitLength(longest_edge),
                             longest_edge) > longest_edge
    THEN (side * MAX_DIMENSION) \div longest_edge
    ELSE RoundedProduct((side * MAX_DIMENSION) \div longest_edge,
                        ScaleRemainder((2^13) % longest_edge,
                                       BitLength(longest_edge), longest_edge),
                        BitLength(longest_edge),
                        BitLength((side * MAX_DIMENSION) \div longest_edge) - 1)

\* _compute_resize_dims
ComputeResizeDims(width, height) ==
    LET longest_edge == IF width >= height THEN width ELSE height
    IN  IF longest_edge <= MAX_DIMENSION
        THEN <<width, height>>
        ELSE <<ScaledSide(width, longest_edge), ScaledSide(height, longest_edge)>>

\* preprocess_image: cv2.resize rejects a target size with a zero side
PreprocessImage(payload) ==
    LET width == payload.raw_image.width
        height == payload.raw_image.height
        target == ComputeResizeDims(width, height)
        resized == target # <<width, height>>
    IN  IF resized /\ (target[1] = 0 \/ target[2] = 0)
        THEN Error("error", "OpenCV: resize assertion failed")
        ELSE Ret([preprocessed |->
                     [metadata |-> payload.metadata,
                      width |-> target[1], height |-> target[2],
                      mean_intensity |-> payload.raw_image.mean,
                      texture |-> payload.raw_image.texture,
                      variation |-> payload.raw_image.variation],
                  notes |-> <<"Raw image shape (HxW).">>
                            \o (IF resized THEN <<"Resized image.">> ELSE <<>>)
                            \o <<"Converted to grayscale (OpenCV).",
                                 "Applied Gaussian blur for mild denoising.",
                                 "Computed mean intensity.">>])

FEATURE_NAME == "target_structure"

\* DetectorConfig, in thousandths
TEXTURE_THRESHOLD == 35

VARIANCE_THRESHOLD == 80

UNCERTAIN_VARIANCE_THRESHOLD == 50

BASE_CONFIDENCE == 650

\* analyze_image: texture score, variation and mean intensity come in
\* thousandths, the confidence is rounded to hundredths
AnalyzeImage(preprocessed) ==
    LET detected == /\ preprocessed.texture > TEXTURE_THRESHOLD
                    /\ preprocessed.variation > VARIANCE_THRESHOLD
        ambiguous == ~detected /\ preprocessed.variation > UNCERTAIN_VARIANCE_THRESHOLD
        capped == IF BASE_CONFIDENCE + preprocessed.variation > 950
                  THEN 950 ELSE BASE_CONFIDENCE + preprocessed.variation
    IN  [finding |->
            [feature_name |-> FEATURE_NAME,
             detected |-> detected,
             confidence |-> IF detected THEN RoundDiv(capped, 10)
                            ELSE IF ambiguous THEN 55
                            ELSE RoundDiv(3500 + preprocessed.mean_intensity, 100),
             status |-> IF detected THEN "present"
                        ELSE IF ambiguous THEN "uncertain" ELSE "absent"],
         notes |-> <<"Texture score (edge density proxy).",
                     "Intensity variation.">>]

\* generate_ai_report: the summary of the snippet
GenerateAiReport(finding) ==
    [summary |->
        IF finding.status = "present"
        THEN "The monitored structure is visualized with expected contours."
        ELSE IF finding.status = "uncertain"
        THEN "The structure is partially appreciable; clarity is limited by acquisition."
        ELSE "No convincing appearance of the monitored structure in this scan.",
     confidence_statement |->
        IF finding.status = "present" THEN "AI confidence with stable delineation."
        ELSE IF finding.status = "uncertain"
        THEN "Visibility borderline: recommend manual inspection."
        ELSE "Low-likelihood finding."]

----------------------------------------------------------------------------
(* radverify.report_parser *)

\* the words of NEGATION_PATTERN
NEGATION_WORDS == {"no", "without", "absent", "denies"}

FEATURE_KEYWORDS == <<"calcification", "calcified focus", "calcifications">>

CONFIDENCE_KEYWORDS ==
    <<"normal", "adequate", "clear", "intact", "stable", "unremarkable">>

\* half of the default window of _extract_context_snippet: window // 2
HALF_WINDOW == 30

\* a snippet that begins at the keyword: the text before it is left out
ExtractContextSnippetAfter(text, keyword) ==
    LET index == Find(text, keyword)
        reach == index + Len(keyword) + HALF_WINDOW
        end == IF reach < Len(text) THEN reach ELSE Len(text)
    IN  Strip(Slice(text, index, end))

\* _extract_context_snippet(text, keyword)
ExtractContextSnippet(text, keyword) ==
    LET index == Find(text, keyword)
        start == IF index - HALF_WINDOW > 0 THEN index - HALF_WINDOW ELSE 0
        reach == index + Len(keyword) + HALF_WINDOW
        end == IF reach < Len(text) THEN reach ELSE Len(text)
    IN  Strip(Slice(text, start, end))

\* the part of normalized that negation is searched in: snippet or
\* normalized[:80]
ContextSection(normalized, snippet) ==
    IF snippet # <<>> THEN snippet
    ELSE Slice(normalized, 0, IF Len(normalized) < 80 THEN Len(normalized) ELSE 80)

\* parse_report(report_text, feature_name) on the characters of the text
ParseReport(report_text, feature_name) ==
    LET normalized == Strip(report_text)
        lowered == Lower(normalized)
        matches == SelectSeq(FEATURE_KEYWORDS,
                             LAMBDA keyword : IsSubstr(Text[keyword], lowered))
        mentioned == matches # <<>>
        snippet == ExtractContextSnippet(lowered, Text[matches[1]])
        negated == /\ mentioned
                   /\ SearchWords(NEGATION_WORDS,
                                  ContextSection(normalized, snippet))
    IN  IF normalized = <<>>
        THEN Error("ValueError", "Report text is empty.")
        ELSE Ret([report |->
                     [feature_name |-> feature_name,
                      mentioned |-> mentioned,
                      negated |-> negated,
                      context_snippet |->
                          IF mentioned THEN Some(snippet) ELSE None,
                      status |-> IF ~mentioned THEN "not_mentioned"
                                 ELSE IF negated THEN "mentioned_negated"
                                 ELSE "mentioned",
                      confidence_terms |->
                          SelectSeq(CONFIDENCE_KEYWORDS,
                                    LAMBDA term : IsSubstr(Text[term], lowered))],
                  notes |-> <<"Report text normalized and ready for parsing.",
                              "Feature mention detected.">>
                            \o (IF mentioned
                                THEN <<"Negation context around mention.">>
                                ELSE <<"Feature not explicitly mentioned by keywords.">>)])

----------------------------------------------------------------------------
(* radverify.explanation *)

\* _describe_report
DescribeReport(report_findings) ==
    IF report_findings.status = "not_mentioned" THEN "not mentioned"
    ELSE IF report_findings.status = "mentioned_negated" THEN "mentioned as absent"
    ELSE IF report_findings.status = "mentioned" THEN "mentioned as present"
    ELSE StrOf(ReplaceUnderscore(Text[report_findings.status]))

\* the last sentence of the explanation of a contradiction
MANUAL_REVIEW == "Manual review is recommended to resolve the discrepancy."

\* the sentences of the fallback explanation
Fallback(ai_finding, report_state) ==
    <<"AI status: " \o ai_finding.status \o ".",
      "Report status: " \o report_state \o ".",
      "No definitive mismatch identified, but the context warrants a quick look.">>

\* generate_explanation without the wording of a contradiction
GenerateExplanationNoContradiction(ai_finding, report_findings, comparison, ai_report) ==
    LET report_state == DescribeReport(report_findings)
    IN  IF comparison.status \in {"match", "match_absent"}
        THEN <<"The AI-derived snippet and the human report both describe the monitored structure consistently.",
               ai_report.summary>>
        ELSE IF comparison.status = "omission"
        THEN <<"AI cues suggest the structure is visible, but the human report never references it.",
               "Consider amending the report if the AI observation is clinically relevant.">>
        ELSE IF comparison.status = "overstatement"
        THEN <<"The report documents the structure as present, yet AI could not confirm it with sufficient confidence.",
               "Verify whether the textual mention was intentional or a potential oversight.">>
        ELSE Fallback(ai_finding, report_state)

\* generate_explanation: the explanation as the sequence of its sentences
GenerateExplanation(ai_finding, report_findings, comparison, ai_report) ==
    LET report_state == DescribeReport(report_findings)
    IN  IF comparison.status \in {"match", "match_absent"}
        THEN <<"The AI-derived snippet and the human report both describe the monitored structure consistently.",
               ai_report.summary>>
        ELSE IF comparison.status = "omission"
        THEN <<"AI cues suggest the structure is visible, but the human report never references it.",
               "Consider amending the report if the AI observation is clinically relevant.">>
        ELSE IF comparison.status = "contradiction"
        THEN <<"The report explicitly negates the structure while AI detected signals resembling it.",
               MANUAL_REVIEW>>
        ELSE IF comparison.status = "overstatement"
        THEN <<"The report documents the structure as present, yet AI could not confirm it with sufficient confidence.",
               "Verify whether the textual mention was intentional or a potential oversight.">>
        ELSE Fallback(ai_finding, report_state)

----------------------------------------------------------------------------
(* radverify.pipeline.run_verification *)

\* a recorder that puts new entries in front of the recorded ones
TraceExtendInFront(entries, stage, messages) ==
    [i \in 1..Len(messages) |-> [stage |-> stage, message |-> messages[i]]] \o entries

\* TraceRecorder.extend(stage, messages) on the entries recorded so far
TraceExtend(entries, stage, messages) ==
    entries \o [i \in 1..Len(messages) |-> [stage |-> stage, message |-> messages[i]]]

\* a telemetry event; payload is a dict
TelemetryEvent(event_type, payload) ==
    [event_type |-> event_type, payload |-> payload]

\* context = {"filename": getattr(uploaded_image, "name", "unknown")}
Context(uploaded_image) ==
    [filename |-> IF uploaded_image = None
                  THEN Some([pad |-> 0, tail |-> "unknown"])
                  ELSE uploaded_image.name]

\* an except clause that re-raises without recording an event
StageFailedUnrecorded(context, exc) ==
    [out |-> Raise(exc), recorded |-> <<>>]

\* the except clause of run_verification: the event it records and the bare
\* raise that hands the exception on
StageFailed(context, exc) ==
    [out |-> Raise(exc),
     recorded |-> <<TelemetryEvent("verification_error",
                        context @@ [error |-> exc.class,
                                    detail |-> exc.detail])>>]

\* run_verification: the outcome and the telemetry events it records
RunVerificationOp(uploaded_image, report_text) ==
    LET context == Context(uploaded_image)
        start == TelemetryEvent("verification_start", context)
        failed(exc) ==
            [out |-> StageFailed(context, exc).out,
             events |-> <<start>> \o StageFailed(context, exc).recorded]
        bundled(pre, ai, parsed, comparison, ai_report_snippet, explanation, t6) ==
            [out |-> Ret([bundle |->
                              [preprocessed_image |-> pre.ret.preprocessed,
                               ai_finding |-> ai.finding,
                               report_findings |-> parsed.ret.report,
                               comparison |-> comparison,
                               ai_report_snippet |-> ai_report_snippet,
                               explanation |-> explanation,
                               processing_notes |-> t6],
                           notes |-> t6]),
             events |-> <<start,
                          TelemetryEvent("verification_success",
                              context @@ [status |-> comparison.status])>>]
        compared(input, pre, ai, ai_report_snippet, parsed, comparison) ==
            bundled(pre, ai, parsed, comparison, ai_report_snippet,
                    GenerateExplanation(ai.finding, parsed.ret.report,
                                        comparison, ai_report_snippet),
                    TraceExtend(
                      TraceExtend(
                        TraceExtend(
                          TraceExtend(
                            TraceExtend(
                              TraceExtend(<<>>, "Input", input.ret.notes),
                              "Preprocess", pre.ret.notes),
                            "AI", ai.notes
                              \o <<"Report snippet generated from finding.">>),
                          "Report", parsed.ret.notes),
                        "Comparison", <<"AI detected. Report mentioned. Negated.">>),
                      "Explanation",
                      <<"Explanation synthesized for frontend display.">>))
        reported(input, pre, ai, ai_report_snippet, parsed) ==
            IF ~Returned(parsed) THEN failed(parsed.exc)
            ELSE compared(input, pre, ai, ai_report_snippet, parsed,
                          CompareFindingsOp(ai.finding, parsed.ret.report))
        analyzed(input, pre, ai) ==
            reported(input, pre, ai, GenerateAiReport(ai.finding),
                     ParseReport(input.ret.payload.cleaned_report,
                                 ai.finding.feature_name))
        preprocessed(input, pre) ==
            IF ~Returned(pre) THEN failed(pre.exc)
            ELSE analyzed(input, pre, AnalyzeImage(pre.ret.preprocessed))
        prepared(input) ==
            IF ~Returned(input) THEN failed(input.exc)
            ELSE preprocessed(input, PreprocessImage(input.ret.payload))
    IN  prepared(PrepareInputs(uploaded_image, report_text))

----------------------------------------------------------------------------
(* radverify.telemetry.TelemetryClient.record_event *)

\* the size of the buffer between json.dump and the file: what the handle
\* holds back until it is closed
WRITE_BUFFER == 8192

\* the characters of a JSON line besides the file name: keys, event type,
\* timestamp and punctuation
JSON_OVERHEAD == 120

\* the length of a file name: pad letters followed by the characters of tail
NameLen(name) == IF name = None THEN 4 ELSE name[1].pad + Len(Text[name[1].tail])

\* the length of the JSON line of an event
LineLength(event) == JSON_OVERHEAD + NameLen(event.payload.filename)

\* the write() system calls that carry the line of an event to the file, which
\* is opened in append mode: a line that fits the buffer goes out whole when
\* the handle is closed; a longer one goes out in three pieces, the text
\* before the file name, the file name, and the rest on close
RawWrites(request, seq, event) ==
    LET parts == IF LineLength(event) <= WRITE_BUFFER THEN 1 ELSE 3
    IN  [part \in 1..parts |->
            [request |-> request, seq |-> seq, event |-> event,
             part |-> part, parts |-> parts]]

\* the write() calls of the k-th and later events of a request, in order
RECURSIVE WritesFrom(_, _, _)
WritesFrom(request, events, k) ==
    IF k > Len(events) THEN <<>>
    ELSE RawWrites(request, k, events[k]) \o WritesFrom(request, events, k + 1)

----------------------------------------------------------------------------
(* The inputs of run_verification *)

\* the decoded images: size, texture score, intensity variation and mean
\* intensity in thousandths
Scans ==
    { [width |-> d[1], height |-> d[2],
       texture |-> t[1], variation |-> t[2], mean |-> t[3]] :
        d \in {<<64, 64>>, <<2048, 1024>>, <<5000, 4>>},
        t \in {<<50, 100, 500>>, <<10, 60, 500>>, <<10, 10, 500>>} }

\* a name of more than WRITE_BUFFER characters is one a client can send
FileNames ==
    {None} \cup
    { Some([pad |-> 0, tail |-> t]) : t \in {"scan.png", "scan.PNG", "scan.gif", "scan"} }
    \cup { Some([pad |-> 9000, tail |-> "scan.png"]) }

Uploads ==
    {None}
    \cup [name : FileNames, raw_bytes : {"image"}, image : Scans]
    \cup [name : FileNames, raw_bytes : {"empty", "garbage"},
          image : { [width |-> 64, height |-> 64, texture |-> 10,
                     variation |-> 10, mean |-> 500] }]

\* the names under which Text holds the report texts
Reports ==
    { "",
      "  \n ",
      "No calcifications are seen. Findings are otherwise normal.",
      "Calcification is noted in the placenta.",
      "Placenta is clear and intact.",
      "No evidence on any of the acquired views of calcification.",
      "Calcification was suspected on the earlier study but there is no calcification today.",
      "Calcification seen. No mass.",
      "Nothing abnormal; calcified focus noted.",
      " The scan  DENIES\ncalcification. ",
      "No focus in any of the image, calcification.",
      "No focus in any of the images, calcification.",
      "Piano key sign in the far field, calcification.",
      "Calcification is seen at the upper pole of the placenta. There is no calcified focus." }

RunArgs == Uploads \X Reports

----------------------------------------------------------------------------
(* One call at a time: the pipelines and their stages *)

\* radverify.pipeline.run_verification(uploaded_image, report_text): the
\* call, and the lines its events add to the telemetry log
RunVerification(inputs, limit) ==
    /\ Len(calls) < limit
    /\ \E a \in inputs :
          LET finish(done) ==
                  /\ Call("run_verification", a, done.out)
                  /\ telemetry' =
                        telemetry \o WritesFrom(Len(calls) + 1, done.events, 1)
          IN  finish(RunVerificationOp(a[1], a[2]))
    /\ UNCHANGED <<engine, pixel_to_mm, requests>>

\* radverify.report_parser.parse_report(report_text), with the default feature
\* name
ParseReportCall(inputs, limit) ==
    /\ Len(calls) < limit
    /\ \E report_text \in inputs :
          Call("parse_report", report_text,
               ParseReport(Text[report_text], "calcification"))
    /\ UNCHANGED <<engine, pixel_to_mm, telemetry, requests>>

----------------------------------------------------------------------------
(* modules.nlp_parser.NLPParser *)

NEGATION_KEYWORDS ==
    <<"no", "not", "absent", "negative", "without", "unremarkable",
      "no evidence of", "fails to demonstrate", "does not show">>

UNCERTAINTY_KEYWORDS ==
    <<"possible", "probable", "likely", "suggests", "may indicate",
      "appears", "seems", "questionable", "uncertain">>

\* the items of the dict STRUCTURE_KEYWORDS, in its order
STRUCTURE_KEYWORDS ==
    << <<"brain", <<"brain", "skull", "cranium", "ventricle", "cerebellum",
                    "cavum septum pellucidum">> >>,
       <<"heart", <<"heart", "cardiac", "four-chamber", "atrium", "ventricle">> >>,
       <<"spine", <<"spine", "spinal", "vertebra", "vertebrae">> >>,
       <<"face", <<"face", "facial", "profile", "nasal bone", "lip", "lips">> >>,
       <<"organs", <<"stomach", "kidney", "kidneys", "bladder", "liver">> >>,
       <<"limbs", <<"arm", "arms", "leg", "legs", "hand", "hands", "foot",
                    "feet", "limb", "limbs">> >>,
       <<"placenta", <<"placenta", "placental">> >>,
       <<"amniotic_fluid", <<"amniotic fluid", "liquor", "fluid volume">> >>,
       <<"umbilical_cord", <<"umbilical cord", "cord">> >> >>

\* NLPParser.extract_sentences without the spaCy model: the pieces of
\* re.split(r'[.!?]+', text), stripped, without those that are empty
ExtractSentences(text) ==
    LET cuts == {0, Len(text) + 1}
                \cup { i \in 1..Len(text) : text[i] \in {".", "!", "?"} }
        piece(a) ==
            Strip(SubSeq(text, a + 1, SetMin({ c \in cuts : c > a }) - 1))
        kept == { a \in cuts \ {Len(text) + 1} : piece(a) # <<>> }
    IN  [k \in 1..Cardinality(kept) |->
            piece(CHOOSE a \in kept :
                    Cardinality({ c \in kept : c < a }) = k - 1)]

\* any(keyword in sentence.lower() for keyword in keywords)
AnyKeywordIn(keywords, sentence) ==
    \E n \in 1..Len(keywords) : IsSubstr(Text[keywords[n]], Lower(sentence))

\* NLPParser.detect_negation
DetectNegation(sentence) == AnyKeywordIn(NEGATION_KEYWORDS, sentence)

\* NLPParser.detect_uncertainty
DetectUncertainty(sentence) ==
    IF AnyKeywordIn(UNCERTAINTY_KEYWORDS, sentence) THEN "possible"
    ELSE IF DetectNegation(sentence) THEN "unlikely"
    ELSE "definite"

\* the finding extract_structure_mentions stores for a keyword whose
\* relevant_sentences are not empty
KeywordFinding(relevant_sentences) ==
    LET hedged == SelectSeq(relevant_sentences,
                            LAMBDA sent : DetectUncertainty(sent) # "definite")
    IN  [mentioned |-> TRUE,
         negated |-> \E n \in 1..Len(relevant_sentences) :
                        DetectNegation(relevant_sentences[n]),
         uncertainty_level |-> IF hedged = <<>> THEN "definite"
                               ELSE DetectUncertainty(hedged[1]),
         relevant_sentences |-> relevant_sentences]

\* the body of NLPParser.extract_structure_mentions once extract_sentences
\* has returned: a category's findings are a dict in insertion order, i.e. a
\* sequence of [keyword, data] items
StructureMentions(sentences, text) ==
    LET text_lower == Lower(text)
        relevant(keyword) ==
            SelectSeq(sentences, LAMBDA sent : IsSubstr(Text[keyword], Lower(sent)))
        found(keywords) ==
            SelectSeq(keywords,
                      LAMBDA keyword : /\ IsSubstr(Text[keyword], text_lower)
                                       /\ relevant(keyword) # <<>>)
        category_findings(keywords) ==
            [n \in 1..Len(found(keywords)) |->
                [keyword |-> found(keywords)[n],
                 data |-> KeywordFinding(relevant(found(keywords)[n]))]]
        filled == { n \in 1..Len(STRUCTURE_KEYWORDS) :
                      found(STRUCTURE_KEYWORDS[n][2]) # <<>> }
    IN  [category \in { STRUCTURE_KEYWORDS[n][1] : n \in filled } |->
            category_findings(
                STRUCTURE_KEYWORDS[CHOOSE n \in filled :
                                      STRUCTURE_KEYWORDS[n][1] = category][2])]

\* NLPParser.extract_structure_mentions of a parser whose nlp is None
ExtractStructureMentions(text) == StructureMentions(ExtractSentences(text), text)

\* NLPParser.extract_sentences of a parser that holds the spaCy pipeline:
\* [sent.text.strip() for sent in doc.sents]. A sentence of the pipeline is a
\* run of whole tokens: it ends behind terminal punctuation that closes a
\* token (white space or the end of the text follows) and keeps that
\* punctuation; the point inside a number such as 4.5 ends no sentence.
SpacySentences(text) ==
    LET ends == { i \in 1..Len(text) :
                    /\ text[i] \in {".", "!", "?"}
                    /\ (i = Len(text) \/ IsSpace(text[i + 1])) }
        cuts == {0, Len(text)} \cup ends
        piece(a) == Strip(SubSeq(text, a + 1, SetMin({ c \in cuts : c > a })))
        kept == { a \in cuts \ {Len(text)} : piece(a) # <<>> }
    IN  [k \in 1..Cardinality(kept) |->
            piece(CHOOSE a \in kept :
                    Cardinality({ c \in kept : c < a }) = k - 1)]

\* NLPParser.extract_structure_mentions of a parser that holds the pipeline
ExtractStructureMentionsSpacy(text) ==
    StructureMentions(SpacySentences(text), text)

\* the names under which Text holds the reports given to the NLPParser
NlpReports ==
    { "",
      "Skull: normal shape.",
      "No abnormality of the heart is seen in any of the views obtained today.",
      "Heart is seen! Spine not visualised.",
      "The heart is seen. The heart is absent from the second view?",
      "Possible placental lake. Stomach and bladder seen",
      "Cord has three vessels.",
      "Placenta is clear and intact.",
      "No possible spine defect.",
      "Skull measures 4.5 cm with no defect.",
      "BPD: 47.2 mm. Amniotic fluid is adequate.",
      "Four-chamber view of the heart seen." }

\* NLPParser.extract_structure_mentions(text)
ExtractStructureMentionsCall(inputs, limit) ==
    /\ Len(calls) < limit
    /\ \E text \in inputs :
          Call("extract_structure_mentions", text,
               Ret(ExtractStructureMentions(Text[text])))
    /\ UNCHANGED <<engine, pixel_to_mm, telemetry, requests>>

\* NLPParser.extract_structure_mentions(text) of a parser whose spaCy
\* pipeline was loaded (self.nlp is set)
ExtractStructureMentionsSpacyCall(inputs, limit) ==
    /\ Len(calls) < limit
    /\ \E text \in inputs :
          Call("extract_structure_mentions[nlp]", text,
               Ret(ExtractStructureMentionsSpacy(Text[text])))
    /\ UNCHANGED <<engine, pixel_to_mm, telemetry, requests>>
----------------------------------------------------------------------------
(* Calls of the analyzer. A scan is a well-formed grayscale image, given by
   the rows of its right edge strip that hold pixels brighter than 200, the
   number of such pixels in each of these rows, its contours and the draws of
   the random generator. The scans include a uniformly coloured image (no
   bright row), scale bars with ticks 8 to 20 pixels apart, and a strip image
   whose two bright rows are 200001 pixels apart. *)

\* CalibrationDetector.detect: np.argmax(np.bincount(np.diff(unique_y))), the
\* most frequent gap between consecutive bright rows and the smallest of the
\* most frequent ones; 0 when there is no gap
ModalGap(rows) ==
    LET gap(y) == SetMin({ z \in rows : z > y }) - y
        lower == { y \in rows : \E z \in rows : z > y }
        count(g) == Cardinality({ y \in lower : gap(y) = g })
        gaps == { gap(y) : y \in lower }
    IN  IF gaps = {} THEN 0
        ELSE SetMin({ g \in gaps : \A other \in gaps : count(other) <= count(g) })

\* the image of a scan as CalibrationDetect and MeasureBiometry read it
GrayImage(scan) ==
    [bright_pixels |-> Cardinality(scan.rows) * scan.per_row,
     modal_gap |-> ModalGap(scan.rows),
     contours |-> scan.contours,
     jitter |-> scan.jitter]

AnalyzerScans ==
    [rows : { {}, {5}, 0..30, {0, 20, 40, 60}, {0, 11, 22, 33}, {0, 10, 20, 30},
              {0, 8, 20, 40}, {0, 20, 40, 48}, {0, 200001} },
     per_row : {1, 4, 11},
     contours :
        { <<>>,
          << [area |-> 9000, points |-> 40, major |-> 120, minor |-> 100,
              length |-> 120, width |-> 100],
             [area |-> 7000, points |-> 30, major |-> 100, minor |-> 95,
              length |-> 100, width |-> 95],
             [area |-> 900, points |-> 12, major |-> 0, minor |-> 0,
              length |-> 70, width |-> 12] >>,
          << [area |-> 400, points |-> 4, major |-> 0, minor |-> 0,
              length |-> 30, width |-> 12] >> },
     jitter : { [param \in DOMAIN FALLBACK_VALUES |-> -15],
                [BPD |-> 14, HC |-> 0, AC |-> -7, FL |-> 15] }]

\* CalibrationDetector.detect(image)
DetectCall(inputs, limit) ==
    /\ Len(calls) < limit
    /\ \E scan \in inputs :
          Call("detect", scan, Ret(CalibrationDetect(GrayImage(scan))))
    /\ UNCHANGED <<engine, pixel_to_mm, telemetry, requests>>

\* AIAnalyzer.measure_biometry(image)
MeasureBiometryCall(inputs, limit) ==
    /\ Len(calls) < limit
    /\ \E scan \in inputs :
          LET done == MeasureBiometry(GrayImage(scan))
          IN  /\ Call("measure_biometry", scan, done.out)
              /\ pixel_to_mm' = done.pixel_to_mm
    /\ UNCHANGED <<engine, telemetry, requests>>

\* AIAnalyzer.analyze(image)
AnalyzeCall(inputs, limit) ==
    /\ Len(calls) < limit
    /\ \E scan \in inputs :
          LET done == Analyze(GrayImage(scan))
          IN  /\ Call("analyze", scan, done.out)
              /\ pixel_to_mm' = done.pixel_to_mm
    /\ UNCHANGED <<engine, telemetry, requests>>

----------------------------------------------------------------------------
(* Calls of generate_explanation. The comparison status ranges over the status
   enumeration, the other inputs over the statuses the detector and the report
   parser produce, a report status outside these, and an empty and a
   non-empty AI summary. *)

STATUSES ==
    {"match", "match_absent", "omission", "overstatement", "mismatch",
     "contradiction", "not_assessed", "uncertain"}

ExplanationInputs ==
    [comparison_status : STATUSES,
     ai_status : {"present", "uncertain", "absent"},
     report_status : {"not_mentioned", "mentioned_negated", "mentioned",
                      "needs_review"},
     summary : {"", "The monitored structure is visualized with expected contours."}]

\* generate_explanation(ai_finding, report_findings, comparison, ai_report)
GenerateExplanationCall(inputs, limit) ==
    /\ Len(calls) < limit
    /\ \E input \in inputs :
          Call("generate_explanation", input,
               Ret(GenerateExplanation([status |-> input.ai_status],
                                       [status |-> input.report_status],
                                       [status |-> input.comparison_status],
                                       [summary |-> input.summary])))
    /\ UNCHANGED <<engine, pixel_to_mm, telemetry, requests>>
----------------------------------------------------------------------------
(* api_server: the /verify endpoint, and prepare_inputs called on its own *)

\* raise HTTPException(status_code=status_code, detail=detail)
HTTPException(status_code, detail) ==
    Raise([class |-> "HTTPException", status_code |-> status_code,
           detail |-> detail])

\* verify_report without the except clause for ValueError
VerifyReportNoValueError(scan, report) ==
    LET upload == [name |-> IF scan.name # None
                            THEN scan.name
                            ELSE Some([pad |-> 0, tail |-> "scan"]),
                   raw_bytes |-> scan.raw_bytes,
                   image |-> scan.image]
        done == RunVerificationOp(upload, report)
    IN  IF scan.raw_bytes = "empty"
        THEN [out |-> HTTPException(400, "Uploaded scan is empty."),
              events |-> <<>>]
        ELSE IF Returned(done.out)
        THEN [out |-> Ret([comparison |-> done.out.ret.bundle.comparison,
                           explanation |-> done.out.ret.bundle.explanation,
                           ai_finding |-> done.out.ret.bundle.ai_finding,
                           ai_report_snippet |-> done.out.ret.bundle.ai_report_snippet,
                           report_findings |-> done.out.ret.bundle.report_findings,
                           processing_notes |-> done.out.ret.notes]),
              events |-> done.events]
        ELSE [out |-> HTTPException(500, "Verification failed."),
              events |-> done.events]

\* verify_report(scan, report): scan is the uploaded file with its filename
\* (or None), its bytes and the image they decode to; the outcome, and the
\* telemetry events of the calls of run_verification it makes
VerifyReport(scan, report) ==
    LET upload == [name |-> IF scan.name # None
                            THEN scan.name
                            ELSE Some([pad |-> 0, tail |-> "scan"]),
                   raw_bytes |-> scan.raw_bytes,
                   image |-> scan.image]
        answered(done) ==
            IF Returned(done.out)
            THEN [out |-> Ret([comparison |-> done.out.ret.bundle.comparison,
                               explanation |-> done.out.ret.bundle.explanation,
                               ai_finding |-> done.out.ret.bundle.ai_finding,
                               ai_report_snippet |-> done.out.ret.bundle.ai_report_snippet,
                               report_findings |-> done.out.ret.bundle.report_findings,
                               processing_notes |-> done.out.ret.notes]),
                  events |-> done.events]
            ELSE IF done.out.exc.class = "ValueError"
            THEN [out |-> HTTPException(400, done.out.exc.detail),
                  events |-> done.events]
            ELSE [out |-> HTTPException(500, "Verification failed."),
                  events |-> done.events]
    IN  IF scan.raw_bytes = "empty"
        THEN [out |-> HTTPException(400, "Uploaded scan is empty."),
              events |-> <<>>]
        ELSE answered(RunVerificationOp(upload, report))

\* the requests that reach verify_report: the framework answers a request
\* without a file or without report text itself
VerifyArgs == (Uploads \ {None}) \X (Reports \ {""})

\* POST /verify
VerifyReportCall(inputs, limit) ==
    /\ Len(calls) < limit
    /\ \E a \in inputs :
          LET answer(done) ==
                  /\ Call("verify_report", a, done.out)
                  /\ telemetry' =
                        telemetry \o WritesFrom(Len(calls) + 1, done.events, 1)
          IN  answer(VerifyReport(a[1], a[2]))
    /\ UNCHANGED <<engine, pixel_to_mm, requests>>

\* radverify.input_handler.prepare_inputs(uploaded_file, report_text)
PrepareInputsCall(inputs, limit) ==
    /\ Len(calls) < limit
    /\ \E a \in inputs : Call("prepare_inputs", a, PrepareInputs(a[1], a[2]))
    /\ UNCHANGED <<engine, pixel_to_mm, telemetry, requests>>
----------------------------------------------------------------------------
(* radverify.preprocess, called on its own *)

\* the sides of the images given to _compute_resize_dims
ResizeSides == {1, 4, 64, 561, 1023, 1024, 1025, 1122, 2048, 5000}

ResizeArgs == ResizeSides \X ResizeSides

\* _compute_resize_dims(width, height)
ComputeResizeDimsCall(inputs, limit) ==
    /\ Len(calls) < limit
    /\ \E a \in inputs :
          Call("_compute_resize_dims", a, Ret(ComputeResizeDims(a[1], a[2])))
    /\ UNCHANGED <<engine, pixel_to_mm, telemetry, requests>>

\* the payloads prepare_inputs hands on for images of these sizes
Payloads ==
    { [metadata |-> [filename |-> [pad |-> 0, tail |-> "scan.png"]],
       raw_image |-> [width |-> a[1], height |-> a[2],
                      texture |-> 50, variation |-> 100, mean |-> 500],
       cleaned_report |-> Text["Placenta is clear and intact."]] :
        a \in ResizeArgs }

\* preprocess_image(payload)
PreprocessImageCall(inputs, limit) ==
    /\ Len(calls) < limit
    /\ \E payload \in inputs :
          Call("preprocess_image", payload, PreprocessImage(payload))
    /\ UNCHANGED <<engine, pixel_to_mm, telemetry, requests>>
----------------------------------------------------------------------------
(* modules.nlp_parser.NLPParser.parse_report and the AI catalog *)

\* the items of the dict BIOMETRY_KEYWORDS, in its order
BIOMETRY_KEYWORDS ==
    << <<"BPD", <<"bpd", "biparietal diameter">> >>,
       <<"HC", <<"hc", "head circumference">> >>,
       <<"AC", <<"ac", "abdominal circumference">> >>,
       <<"FL", <<"fl", "femur length", "femoral length">> >> >>

\* the value of a run of digits
RECURSIVE DigitsValue(_)
DigitsValue(digits) ==
    IF digits = <<>> THEN 0
    ELSE 10 * DigitsValue(SubSeq(digits, 1, Len(digits) - 1))
         + (CHOOSE d \in 0..9 : ToString(d) = digits[Len(digits)])

\* the end of the longest run of digits of t that starts at place s, or s - 1
DigitsEnd(t, s) ==
    SetMax({s - 1} \cup { j \in s..Len(t) : \A k \in s..j : t[k] \in Digits })

\* re.search(rf'{keyword}[:\s]+(\d+\.?\d*)\s*mm', t): the values, in tenths,
\* of float(match.group(1)) for the places where the pattern matches, by the
\* place (counted from 0) where the keyword starts; digits behind the first
\* decimal are not kept
MeasurementMatches(t, keyword) ==
    LET number(i) == SetMin({Len(t) + 1} \cup
                       { s \in (i + Len(keyword) + 1)..Len(t) :
                           t[s] # ":" /\ ~IsSpace(t[s]) })
        whole(i) == DigitsEnd(t, number(i))
        point(i) == whole(i) < Len(t) /\ t[whole(i) + 1] = "."
        last(i) == IF point(i) THEN DigitsEnd(t, whole(i) + 2) ELSE whole(i)
        unit(i) == SetMin({Len(t) + 1} \cup
                     { s \in (last(i) + 1)..Len(t) : ~IsSpace(t[s]) })
        matches(i) == /\ number(i) > i + Len(keyword) + 1
                      /\ whole(i) >= number(i)
                      /\ unit(i) < Len(t)
                      /\ t[unit(i)] = "m" /\ t[unit(i) + 1] = "m"
        value(i) == 10 * DigitsValue(SubSeq(t, number(i), whole(i)))
                    + (IF point(i) /\ last(i) >= whole(i) + 2
                       THEN DigitsValue(<<t[whole(i) + 2]>>) ELSE 0)
    IN  { <<i, value(i)>> : i \in { o \in Occurrences(t, keyword) : matches(o) } }

\* NLPParser.extract_measurements: the first keyword of a parameter that the
\* pattern finds gives the value, at its leftmost match
ExtractMeasurements(text) ==
    LET text_lower == Lower(text)
        found(keywords) ==
            SelectSeq(keywords,
                      LAMBDA keyword :
                          MeasurementMatches(text_lower, Text[keyword]) # {})
        first(keywords) ==
            LET hits == MeasurementMatches(text_lower, Text[found(keywords)[1]])
            IN  (CHOOSE h \in hits : \A g \in hits : h[1] <= g[1])[2]
    IN  [param \in { BIOMETRY_KEYWORDS[n][1] : n \in 1..Len(BIOMETRY_KEYWORDS) } |->
            LET keywords ==
                    BIOMETRY_KEYWORDS[CHOOSE n \in 1..Len(BIOMETRY_KEYWORDS) :
                                         BIOMETRY_KEYWORDS[n][1] = param][2]
            IN  IF found(keywords) # <<>>
                THEN [value |-> Some(first(keywords)), unit |-> "mm",
                      mentioned |-> TRUE]
                ELSE [value |-> None, unit |-> "mm", mentioned |-> FALSE]]

\* NLPParser.parse_report(report_text) of a parser whose nlp is None
NlpParseReport(report_text) ==
    [measurements |-> ExtractMeasurements(Text[report_text]),
     structures |-> ExtractStructureMentions(Text[report_text]),
     total_sentences |-> Len(ExtractSentences(Text[report_text])),
     raw_text |-> report_text]

\* AIAnalyzer.FETAL_STRUCTURES
FETAL_STRUCTURES ==
    [biometry |-> <<"head", "abdomen", "femur">>,
     brain |-> <<"skull", "ventricles", "cerebellum">>,
     face |-> <<"profile", "nasal_bone", "lips">>,
     spine |-> <<"vertebrae", "skin_coverage">>,
     heart |-> <<"four_chamber_view">>,
     organs |-> <<"stomach", "kidneys", "bladder">>,
     limbs |-> <<"arms", "legs", "hands", "feet">>,
     maternal |-> <<"placenta", "amniotic_fluid", "umbilical_cord">>]

\* the structures of the catalog that the AI findings below report
DetectedStructures ==
    { s \in UNION { { <<category, FETAL_STRUCTURES[category][n]>> :
                        n \in 1..Len(FETAL_STRUCTURES[category]) } :
                    category \in DOMAIN FETAL_STRUCTURES } :
        s[2] \in {"head", "skull", "four_chamber_view", "placenta",
                  "amniotic_fluid", "umbilical_cord"} }

\* the AI findings in which one of these structures is detected with
\* confidence 0.85, and the parsed reports
NlpVerifyInputs ==
    { << [biometry |-> EmptyDict,
          structures_detected |->
              (s[1] :> (s[2] :> [present |-> TRUE, confidence |-> 85]))],
         NlpParseReport(text) >> :
        s \in DetectedStructures, text \in NlpReports }
\* one call of a pipeline, of one of its stages or of the analyzer
NextRun ==
    \/ Process(ProcessArgs, 1)
    \/ RunVerification(RunArgs, 1)
    \/ ParseReportCall(Reports, 1)
    \/ ExtractStructureMentionsCall(NlpReports, 1)
    \/ ExtractStructureMentionsSpacyCall(NlpReports, 1)
    \/ DetectCall(AnalyzerScans, 1)
    \/ MeasureBiometryCall(AnalyzerScans, 1)
    \/ AnalyzeCall(AnalyzerScans, 1)
    \/ GenerateExplanationCall(ExplanationInputs, 1)
    \/ PrepareInputsCall(RunArgs, 1)
    \/ VerifyReportCall(VerifyArgs, 1)
    \/ ComputeResizeDimsCall(ResizeArgs, 1)
    \/ PreprocessImageCall(Payloads, 1)
    \/ Verify(NlpVerifyInputs, 1)

SpecRun == Init /\ [][NextRun]_vars

----------------------------------------------------------------------------
(* Concurrent requests: calls of process on one RadVerifyPipeline, which share
   its AIAnalyzer, and calls of run_verification, which share the telemetry
   log. A request is [kind, args, pc, local, written, todo, out]: local is the
   value of pixel_to_mm that measure_biometry holds in its local variable (0
   before it is read), written the number of write() calls made for its
   events, todo the write() calls record_event has still to make for the
   event it is recording, out the outcome of the stages of run_verification
   (None before they have run). *)

\* at most this many requests run at once
MaxRequests == 2

\* the requests in SpecConc: accepted images with different scale bars and an
\* image that is rejected; uploads with a short and with a long name, and one
\* whose image is larger than MAX_DIMENSION
ConcProcessArgs ==
    { a \in ProcessArgs :
        /\ a[1] # None
        /\ a[1].ext = ".png" /\ a[1].size_mb = 1 /\ ~a[1].corrupted
        /\ a[2].stripped_len = 50 /\ ~a[3] }

ConcRunArgs ==
    { a \in RunArgs :
        /\ a[2] = "Calcification is noted in the placenta."
        /\ a[1] # None
        /\ a[1].name # None /\ a[1].name[1].tail = "scan.png"
        /\ a[1].image.texture = 50
        /\ \/ a[1].image.width = 64
           \/ a[1].image.width = 2048 /\ a[1].name[1].pad = 0 }

\* a request arrives while fewer than MaxRequests are in the system. The two
\* pipelines are separate programs: the requests of one run are all calls of
\* process or all calls of run_verification
Arrive ==
    /\ Len(requests) < MaxRequests
    /\ \/ /\ \A i \in 1..Len(requests) : requests[i].kind = "process"
          /\ \E a \in ConcProcessArgs :
                requests' = Append(requests,
                    [kind |-> "process", args |-> a, pc |-> "validate",
                     local |-> 0, written |-> 0, todo |-> <<>>, out |-> None])
       \/ /\ \A i \in 1..Len(requests) : requests[i].kind = "run_verification"
          /\ \E a \in ConcRunArgs :
                requests' = Append(requests,
                    [kind |-> "run_verification", args |-> a, pc |-> "record",
                     local |-> 0, written |-> 0, out |-> None,
                     todo |-> RawWrites(Len(requests) + 1, 1,
                                  TelemetryEvent("verification_start",
                                                 Context(a[1])))])
    /\ UNCHANGED <<engine, pixel_to_mm, calls, telemetry>>

\* process, up to the call of analyze: a rejected input ends the request
Validate(r) ==
    /\ requests[r].pc = "validate"
    /\ LET a == requests[r].args
       IN  IF ProcessInputs(a[1], a[2]).valid
           THEN /\ requests' = [requests EXCEPT ![r].pc = "calibrate"]
                /\ UNCHANGED calls
           ELSE /\ requests' = [requests EXCEPT ![r].pc = "done"]
                /\ Call("process", a,
                        Ret(ProcessOp(engine, pixel_to_mm, a[1], a[2], a[3]).results))
    /\ UNCHANGED <<engine, pixel_to_mm, telemetry>>

\* measure_biometry: self.pixel_to_mm = self.calibration_detector.detect(gray)
Calibrate(r) ==
    /\ requests[r].pc = "calibrate"
    /\ pixel_to_mm' = CalibrationDetect(requests[r].args[1].image)
    /\ requests' = [requests EXCEPT ![r].pc = "read"]
    /\ UNCHANGED <<engine, calls, telemetry>>

\* measure_biometry: pixel_to_mm = self.pixel_to_mm
ReadCalibration(r) ==
    /\ requests[r].pc = "read"
    /\ requests' = [requests EXCEPT ![r].pc = "segment", ![r].local = pixel_to_mm]
    /\ UNCHANGED <<engine, pixel_to_mm, calls, telemetry>>

\* measure_biometry: masks = self.segment_structures(image), and the rest of
\* process
Segment(r) ==
    /\ requests[r].pc = "segment"
    /\ LET a == requests[r].args
       IN  Call("process", a,
                Ret(ProcessOp(engine, pixel_to_mm, a[1], a[2], a[3]).results))
    /\ requests' = [requests EXCEPT ![r].pc = "done"]
    /\ UNCHANGED <<engine, pixel_to_mm, telemetry>>

\* record_event: the next write() call for the event being recorded
WriteEvent(r) ==
    /\ requests[r].pc = "record"
    /\ requests[r].todo # <<>>
    /\ telemetry' = Append(telemetry, Head(requests[r].todo))
    /\ requests' = [requests EXCEPT ![r].todo = Tail(@), ![r].written = @ + 1]
    /\ UNCHANGED <<engine, pixel_to_mm, calls>>

\* run_verification between its two events: the stages run, and record_event
\* is called for verification_success or verification_error
RunStages(r) ==
    /\ requests[r].pc = "record"
    /\ requests[r].todo = <<>>
    /\ requests[r].out = None
    /\ LET staged(done) ==
               requests' = [requests EXCEPT ![r].out = Some(done.out),
                                            ![r].todo = RawWrites(r, 2, done.events[2])]
       IN  staged(RunVerificationOp(requests[r].args[1], requests[r].args[2]))
    /\ UNCHANGED <<engine, pixel_to_mm, calls, telemetry>>

\* run_verification returns or raises after its last event is written
Finish(r) ==
    /\ requests[r].pc = "record"
    /\ requests[r].todo = <<>>
    /\ requests[r].out # None
    /\ Call("run_verification", requests[r].args, requests[r].out[1])
    /\ requests' = [requests EXCEPT ![r].pc = "done"]
    /\ UNCHANGED <<engine, pixel_to_mm, telemetry>>

NextConc ==
    \/ Arrive
    \/ \E r \in 1..Len(requests) : Validate(r)
    \/ \E r \in 1..Len(requests) : Calibrate(r)
    \/ \E r \in 1..Len(requests) : ReadCalibration(r)
    \/ \E r \in 1..Len(requests) : Segment(r)
    \/ \E r \in 1..Len(requests) : WriteEvent(r)
    \/ \E r \in 1..Len(requests) : RunStages(r)
    \/ \E r \in 1..Len(requests) : Finish(r)

\* the pipelines are built without a configuration file
InitConc == Init /\ engine = EngineInit(EmptyDict)

SpecConc == InitConc /\ [][NextConc]_vars

----------------------------------------------------------------------------
(* Failures of a request *)

\* the calls of an operation that raised
Raises(op) ==
    { i \in 1..Len(calls) : Op(calls[i]) = op /\ ~Returned(Out(calls[i])) }

\* the stage of process that is running when it fails on these arguments
ProcessFailingStage(image_file, doctor_report_text) ==
    IF ~ProcessInputs(image_file, doctor_report_text).valid
    THEN "input_validation"
    ELSE IF ~Returned(Analyze(image_file.image).out) THEN "ai_analysis"
    ELSE "verification"

\* the stage of run_verification that raises on these arguments
RunFailingStage(uploaded_image, report_text) ==
    IF ~Returned(PrepareInputs(uploaded_image, report_text)) THEN "Input"
    ELSE "Preprocess"

\* C11: a request that fails identifies the failing stage. process never
\* raises: it returns success=True with stage 'completed' and no errors, or
\* success=False with at least one error and the stage that was running; a
\* failure that run_verification raises carries the stage in which it occurred.
C11_FailureNamesStage ==
    /\ Raises("process") = {}
    /\ \A i \in Returns("process") :
          LET results == Out(calls[i]).ret
          IN  IF results.success
              THEN results.stage = "completed" /\ results.errors = <<>>
              ELSE /\ results.errors # <<>>
                   /\ results.stage =
                        ProcessFailingStage(Args(calls[i])[1], Args(calls[i])[2])
    /\ \A i \in Raises("run_verification") :
          /\ "stage" \in DOMAIN Out(calls[i]).exc
          /\ Out(calls[i]).exc.stage =
                RunFailingStage(Args(calls[i])[1], Args(calls[i])[2])

----------------------------------------------------------------------------
(* RadVerifyPipeline.process: failures *)

\* the keys the results dict starts with; every other key is a stage's output
InitialResultKeys == {"success", "errors", "stage"}

\* C12: whenever process returns success=False, the result carries no output
\* of a stage that completed before the failure: it holds nothing but
\* success, errors and stage.
C12_NoPartialSuccess ==
    \A i \in Returns("process") :
        ~Out(calls[i]).ret.success =>
            DOMAIN Out(calls[i]).ret \subseteq InitialResultKeys

----------------------------------------------------------------------------
(* Concurrent requests *)

\* C13: concurrent requests on one pipeline are independent: in every
\* interleaving, the calibration ratio that measure_biometry scales a
\* request's measurements by is the one detected from that request's own image.
C13_OwnCalibration ==
    \A r \in 1..Len(requests) :
        (requests[r].kind = "process" /\ requests[r].local # 0)
        => requests[r].local = CalibrationDetect(requests[r].args[1].image)

\* the write() calls a request makes for its events, in order
WritesOf(r) ==
    WritesFrom(r, RunVerificationOp(requests[r].args[1], requests[r].args[2]).events, 1)

\* C14: the telemetry log is safe under concurrent requests: every event is
\* one unbroken line (its pieces lie next to each other, in order), the lines
\* of one request keep the order in which it recorded them, and no event of a
\* finished request is missing.
C14_LinesUnbroken ==
    /\ \A p \in 1..Len(telemetry) :
          telemetry[p].part > 1 =>
             /\ telemetry[p - 1].request = telemetry[p].request
             /\ telemetry[p - 1].seq = telemetry[p].seq
             /\ telemetry[p - 1].part = telemetry[p].part - 1
    /\ \A p, q \in 1..Len(telemetry) :
          (p < q /\ telemetry[p].request = telemetry[q].request)
          => \/ telemetry[p].seq < telemetry[q].seq
             \/ /\ telemetry[p].seq = telemetry[q].seq
                /\ telemetry[p].part < telemetry[q].part
    /\ \A r \in 1..Len(requests) :
          (requests[r].kind = "run_verification" /\ requests[r].pc = "done")
          => \A k \in 1..Len(WritesOf(r)) :
                \E p \in 1..Len(telemetry) : telemetry[p] = WritesOf(r)[k]

----------------------------------------------------------------------------
(* radverify parse_report *)

\* the feature keywords that occur in a lowered text
KeywordsIn(lowered) ==
    { n \in 1..Len(FEATURE_KEYWORDS) :
        Occurrences(lowered, Text[FEATURE_KEYWORDS[n]]) # {} }

\* a negation marker stands as a word within the context of the mention: not
\* more than HALF_WINDOW characters before the first occurrence of the
\* keyword the parser reports, or after its end
MarkerInContext(lowered) ==
    LET keyword == Text[FEATURE_KEYWORDS[SetMin(KeywordsIn(lowered))]]
        index == SetMin(Occurrences(lowered, keyword))
    IN  \E marker \in NEGATION_WORDS :
            \E j \in Occurrences(lowered, Text[marker]) :
                /\ WordBoundary(lowered, j)
                /\ WordBoundary(lowered, j + Len(Text[marker]))
                /\ j >= index - HALF_WINDOW
                /\ j + Len(Text[marker]) <= index + Len(keyword) + HALF_WINDOW

\* C15: parse_report raises exactly on a report that is empty after
\* trimming. On any other report: without a feature keyword the result is
\* not mentioned, not negated, 'not_mentioned'; with a keyword and a negation
\* marker in its context it is mentioned, negated, 'mentioned_negated'; and
\* confidence_terms holds every confidence keyword that occurs in the text.
C15_ParseReport ==
    \A i \in 1..Len(calls) :
        Op(calls[i]) = "parse_report" =>
            LET lowered == Lower(Strip(Text[Args(calls[i])]))
                out == Out(calls[i])
            IN  /\ Returned(out) <=> lowered # <<>>
                /\ Returned(out) =>
                     /\ out.ret.report.mentioned <=> KeywordsIn(lowered) # {}
                     /\ KeywordsIn(lowered) = {} =>
                          /\ ~out.ret.report.negated
                          /\ out.ret.report.status = "not_mentioned"
                     /\ (KeywordsIn(lowered) # {} /\ MarkerInContext(lowered)) =>
                          /\ out.ret.report.negated
                          /\ out.ret.report.status = "mentioned_negated"
                     /\ \A n \in 1..Len(CONFIDENCE_KEYWORDS) :
                          Occurrences(lowered, Text[CONFIDENCE_KEYWORDS[n]]) # {}
                          => \E k \in 1..Len(out.ret.report.confidence_terms) :
                                out.ret.report.confidence_terms[k] =
                                    CONFIDENCE_KEYWORDS[n]

\* a report with a negated mention and a confidence keyword has been parsed
C15_Witness ==
    \E i \in Returns("parse_report") :
        /\ Out(calls[i]).ret.report.status = "mentioned_negated"
        /\ MarkerInContext(Lower(Strip(Text[Args(calls[i])])))
        /\ Out(calls[i]).ret.report.confidence_terms = <<"normal">>

\* C16: negation is flagged whenever a sentence that contains the keyword also
\* contains a negation marker, wherever in the sentence the marker stands and
\* whichever occurrence of the keyword it accompanies: for every keyword
\* finding of extract_structure_mentions, and for the feature of parse_report.
C16_NegationAnywhereInSentence ==
    \A i \in 1..Len(calls) :
        /\ (Op(calls[i]) = "extract_structure_mentions" /\ Returned(Out(calls[i]))) =>
              LET mentions == Out(calls[i]).ret
                  sentences == ExtractSentences(Text[Args(calls[i])])
              IN  \A category \in DOMAIN mentions :
                    \A n \in 1..Len(mentions[category]) :
                       (\E s \in 1..Len(sentences) :
                           /\ IsSubstr(Text[mentions[category][n].keyword],
                                       Lower(sentences[s]))
                           /\ AnyKeywordIn(NEGATION_KEYWORDS, sentences[s]))
                       => mentions[category][n].data.negated
        /\ (Op(calls[i]) = "parse_report" /\ Returned(Out(calls[i]))) =>
              LET sentences == ExtractSentences(Text[Args(calls[i])])
              IN  (\E s \in 1..Len(sentences) :
                      /\ AnyKeywordIn(FEATURE_KEYWORDS, sentences[s])
                      /\ SearchWords(NEGATION_WORDS, sentences[s]))
                  => Out(calls[i]).ret.report.negated

----------------------------------------------------------------------------
(* AIAnalyzer *)

\* the biometric parameters
BiometryParams == {"BPD", "HC", "AC", "FL"}

\* C17: measure_biometry, called on a well-formed image, returns one entry
\* for each of BPD, HC, AC and FL and no other, each with a value, unit 'mm',
\* a method and a confidence in [0,1]; a fallback entry has confidence 0.65,
\* below that of every geometric entry, and a value within 1.5 mm of the
\* reference; BPD and HC are both geometric or both fallback.
C17_BiometryEntries ==
    \A i \in 1..Len(calls) :
        Op(calls[i]) = "measure_biometry" =>
            /\ Returned(Out(calls[i]))
            /\ LET biometry == Out(calls[i]).ret
               IN  /\ DOMAIN biometry = BiometryParams
                   /\ \A p \in BiometryParams :
                        /\ DOMAIN biometry[p] =
                              {"value", "unit", "method", "confidence"}
                        /\ biometry[p].unit = "mm"
                        /\ biometry[p].confidence \in 0..100
                        /\ IF biometry[p].method = "cv_fallback"
                           THEN /\ biometry[p].confidence = 65
                                /\ Abs(biometry[p].value - FALLBACK_VALUES[p]) <= 15
                           ELSE biometry[p].confidence > 65
                   /\ (biometry["BPD"].method = "cv_fallback")
                      <=> (biometry["HC"].method = "cv_fallback")

\* C18: CalibrationDetector.detect never raises and returns a positive
\* ratio: 10 / g (to four decimal places) when the edge strip holds more
\* than 10 bright pixels and the modal gap g between consecutive bright rows
\* exceeds 10, and the default 0.25 in every other case. Ratios are in units
\* of 1/10000 mm per pixel.
C18_CalibrationRatio ==
    \A i \in 1..Len(calls) :
        Op(calls[i]) = "detect" =>
            /\ Returned(Out(calls[i]))
            /\ Out(calls[i]).ret > 0
            /\ LET scan == Args(calls[i])
                   g == ModalGap(scan.rows)
                   ratio == Out(calls[i]).ret
               IN  IF Cardinality(scan.rows) * scan.per_row > 10 /\ g > 10
                   THEN 2 * Abs(ratio * g - 10 * 10000) <= g
                   ELSE ratio = 2500

\* C19: AIAnalyzer.analyze returns a result for every well-formed image; no
\* step of it, the segmentation step of measure_biometry included, lets an
\* exception out.
C19_AnalyzeNeverRaises ==
    \A i \in 1..Len(calls) :
        Op(calls[i]) = "analyze" => Returned(Out(calls[i]))

----------------------------------------------------------------------------
(* radverify.explanation *)

\* the statuses generate_explanation words itself
WordedStatuses == {"match", "match_absent", "omission", "contradiction", "overstatement"}

\* C20: generate_explanation returns, for every status of the enumeration and
\* every combination of the other inputs, an explanation that is not empty;
\* for a status without its own wording (mismatch, not_assessed, uncertain)
\* the explanation is the generic fallback text, which names the AI status and
\* the report status; the explanation of a contradiction ends with the
\* recommendation of a manual review.
C20_ExplanationTotal ==
    \A i \in 1..Len(calls) :
        Op(calls[i]) = "generate_explanation" =>
            /\ Returned(Out(calls[i]))
            /\ LET input == Args(calls[i])
                   explanation == Out(calls[i]).ret
                   generic ==
                       /\ Len(explanation) = 3
                       /\ explanation[1] = "AI status: " \o input.ai_status \o "."
                       /\ explanation[2] \in
                            { "Report status: " \o state \o "." :
                                state \in {"not mentioned", "mentioned as absent",
                                           "mentioned as present", "needs review"} }
                       /\ explanation[3] =
                            "No definitive mismatch identified, but the context warrants a quick look."
               IN  /\ Len(explanation) > 0
                   /\ explanation[1] # ""
                   /\ input.comparison_status \notin WordedStatuses => generic
                   /\ input.comparison_status = "contradiction" =>
                        explanation[Len(explanation)] =
                            "Manual review is recommended to resolve the discrepancy."

\* generate_explanation has returned the fallback text for the status
\* not_assessed and a report status outside the three it describes itself
C20_Witness ==
    /\ Len(calls) = 1
    /\ Op(calls[1]) = "generate_explanation"
    /\ Returned(Out(calls[1]))
    /\ Args(calls[1]).comparison_status = "not_assessed"
    /\ Args(calls[1]).report_status = "needs_review"
    /\ Out(calls[1]).ret[2] = "Report status: needs review."
----------------------------------------------------------------------------
(* Invalid input *)

\* the report is empty once its whitespace is collapsed and trimmed
BlankReport(report_text) ==
    \A i \in 1..Len(Text[report_text]) : IsSpace(Text[report_text][i])

\* the messages of the input errors that apply to an upload and a report; a
\* file without a name has no extension to judge
InputErrors(upload, report_text) ==
    IF upload = None
    THEN {"An image must be uploaded for verification."}
    ELSE { m \in {"Radiology report text cannot be empty."} : BlankReport(report_text) }
         \cup { m \in {"Unsupported image format"} :
                  /\ upload.name # None
                  /\ Suffix(upload.name[1]) \notin { Text[f] : f \in {"jpg", "jpeg", "png"} } }
         \cup { m \in {"Uploaded image contains no data."} : upload.raw_bytes = "empty" }
         \cup { m \in {"Failed to decode image."} : upload.raw_bytes = "garbage" }

\* what prepare_inputs does with a file without a name is left open
AllowedInputErrors(upload, report_text) ==
    InputErrors(upload, report_text)
    \cup { m \in {"Unsupported image format"} : upload # None /\ upload.name = None }

\* prepare_inputs raises an input error with the message of a case that
\* applies, and otherwise returns a payload with a non-empty cleaned report
PrepareInputsSurfaces ==
    \A i \in 1..Len(calls) :
        Op(calls[i]) = "prepare_inputs" =>
            LET a == Args(calls[i])
                out == Out(calls[i])
            IN  IF Returned(out)
                THEN /\ InputErrors(a[1], a[2]) = {}
                     /\ out.ret.payload.cleaned_report # <<>>
                ELSE /\ out.exc.class = "ValueError"
                     /\ out.exc.detail \in AllowedInputErrors(a[1], a[2])

\* the endpoint calls run_verification at most once for a request
PipelineCalledAtMostOnce ==
    \A i \in 1..Len(calls) :
        Op(calls[i]) = "verify_report" =>
            Cardinality({ p \in 1..Len(telemetry) :
                            /\ telemetry[p].request = i
                            /\ telemetry[p].part = 1
                            /\ telemetry[p].event.event_type = "verification_start" }) <= 1

----------------------------------------------------------------------------
(* The audit trace *)

\* the stages of run_verification, in the order in which they run
STAGES == <<"Input", "Preprocess", "AI", "Report", "Comparison", "Explanation">>

StageIndex(stage) == CHOOSE k \in 1..Len(STAGES) : STAGES[k] = stage

\* the number of entries of a stage in a trace
EntriesOf(trace, stage) == Cardinality({ p \in 1..Len(trace) : trace[p].stage = stage })

\* C22: the audit trace a successful run_verification returns is not empty and
\* ordered by stage (Input, Preprocess, AI, Report, Comparison, Explanation),
\* and holds the entries of its own request and no other, whatever requests
\* ran before it or at the same time: one set of entries per stage, with a
\* 'Resized' entry exactly if the request's own image exceeds the maximum
\* dimension.
C22_TraceOrdered ==
    \A i \in 1..Len(calls) :
        (Op(calls[i]) = "run_verification" /\ Returned(Out(calls[i]))) =>
            LET trace == Out(calls[i]).ret.notes
                image == Args(calls[i])[1].image
            IN  /\ trace # <<>>
                /\ \A p \in 1..Len(trace) : trace[p].stage \in Range(STAGES)
                /\ \A p, q \in 1..Len(trace) :
                      p < q => StageIndex(trace[p].stage) <= StageIndex(trace[q].stage)
                /\ EntriesOf(trace, "Input") = 3
                /\ EntriesOf(trace, "AI") = 3
                /\ EntriesOf(trace, "Report") = 3
                /\ EntriesOf(trace, "Comparison") = 1
                /\ EntriesOf(trace, "Explanation") = 1
                /\ EntriesOf(trace, "Preprocess") \in {4, 5}
                /\ (\E p \in 1..Len(trace) : trace[p].message = "Resized image.")
                   <=> (image.width > 1024 \/ image.height > 1024)
                /\ Out(calls[i]).ret.bundle.processing_notes = trace

\* two requests that ran at the same time have both returned their trace, one
\* for an image that was resized and one for an image that was not
C22_Witness ==
    /\ Len(calls) = 2
    /\ \A i \in 1..2 :
          Op(calls[i]) = "run_verification" /\ Returned(Out(calls[i]))
    /\ Args(calls[1])[1].image.width = 2048
    /\ Args(calls[2])[1].image.width = 64
    /\ \E p \in 1..Len(telemetry) :
          /\ p < Len(telemetry)
          /\ telemetry[p].request # telemetry[p + 1].request
          /\ telemetry[p].event.event_type = "verification_start"
          /\ telemetry[p + 1].event.event_type = "verification_start"
----------------------------------------------------------------------------
(* The values a measurement comparison carries *)

\* C23: every result of compare_measurements carries the contributing values:
\* its ai_value is the value of the AI's entry for the parameter and its
\* doctor_value the value of the report's entry (None only where the entry has
\* none), and a match or mismatch carries the difference and the tolerance.
C23_CarriesValues ==
    \A i \in Returns("compare_measurements") :
        LET ai_measurements == Args(calls[i])[1]
            doctor_measurements == Args(calls[i])[2]
            comparisons == Out(calls[i]).ret
        IN  \A param \in DOMAIN comparisons :
                /\ comparisons[param].ai_value =
                      Get(Get(ai_measurements, param, EmptyDict), "value", None)
                /\ comparisons[param].doctor_value =
                      Get(Get(doctor_measurements, param, EmptyDict), "value", None)
                /\ comparisons[param].status \in {"match", "mismatch"} =>
                      {"difference", "tolerance"} \subseteq DOMAIN comparisons[param]
----------------------------------------------------------------------------
(* C24 *)

\* a relevant sentence that holds both a negation marker and a hedging keyword
NegatedAndHedged(sent) ==
    /\ AnyKeywordIn(NEGATION_KEYWORDS, sent)
    /\ AnyKeywordIn(UNCERTAINTY_KEYWORDS, sent)

\* C24: when the sentences naming a keyword all hold both a negation marker
\* and a hedging keyword, extract_structure_mentions reports the keyword as
\* negated with uncertainty level 'unlikely', not 'possible'.
C24_NegationPrecedence ==
    \A i \in Returns("extract_structure_mentions") :
      LET findings == Out(calls[i]).ret
      IN  \A category \in DOMAIN findings :
            \A n \in 1..Len(findings[category]) :
              LET data == findings[category][n].data
              IN  (\A k \in 1..Len(data.relevant_sentences) :
                      NegatedAndHedged(data.relevant_sentences[k]))
                  => /\ data.negated
                     /\ data.uncertainty_level = "unlikely"
----------------------------------------------------------------------------
(* C25 *)

\* the mentioned and negated flags of the findings of one extraction, per
\* category and keyword
Flags(findings) ==
    [category \in DOMAIN findings |->
        [n \in 1..Len(findings[category]) |->
            <<findings[category][n].keyword,
              findings[category][n].data.mentioned,
              findings[category][n].data.negated>>]]

\* C25: for every report text, extract_structure_mentions of a parser with
\* the sentence-boundary detector gives every tracked keyword the mentioned
\* and negated flags that the parser with the fallback split on '.', '!' and
\* '?' gives it.
C25_SegmentationIndependent ==
    \A i \in Returns("extract_structure_mentions[nlp]") :
        Flags(Out(calls[i]).ret)
            = Flags(ExtractStructureMentions(Text[Args(calls[i])]))
----------------------------------------------------------------------------
(* C26 *)

\* the longer of two sides
Longest(width, height) == IF width >= height THEN width ELSE height

\* what C26 says of the dimensions returned for a width x height image
ResizeContract(width, height, dims) ==
    IF Longest(width, height) <= MAX_DIMENSION
    THEN dims = <<width, height>>
    ELSE /\ dims # <<width, height>>
         /\ dims[1] >= 1 /\ dims[2] >= 1
         /\ Longest(dims[1], dims[2]) <= MAX_DIMENSION
         /\ dims[1] = (width * MAX_DIMENSION) \div Longest(width, height)
         /\ dims[2] = (height * MAX_DIMENSION) \div Longest(width, height)

\* C26: for width, height >= 1, _compute_resize_dims returns (width, height)
\* unchanged exactly when the longest edge is at most 1024, and otherwise
\* dimensions that are both at least 1, with longest edge at most 1024, equal
\* to the sides times 1024 / longest edge rounded down; preprocess_image
\* returns with a 'Resized' note exactly in the second case.
C26_ResizeDims ==
    \A i \in 1..Len(calls) :
        /\ Op(calls[i]) = "_compute_resize_dims" =>
              ResizeContract(Args(calls[i])[1], Args(calls[i])[2],
                             Out(calls[i]).ret)
        /\ Op(calls[i]) = "preprocess_image" =>
              LET image == Args(calls[i]).raw_image
              IN  /\ Returned(Out(calls[i]))
                  /\ (\E n \in 1..Len(Out(calls[i]).ret.notes) :
                         Out(calls[i]).ret.notes[n] = "Resized image.")
                     <=> Longest(image.width, image.height) > MAX_DIMENSION
----------------------------------------------------------------------------
(* C27 *)

\* the threshold and the tolerance the engine is documented to apply: the
\* configured value, and the class default where none was configured
HighThreshold ==
    Get(engine.confidence_thresholds, "high", CONFIDENCE_HIGH)

DocumentedTolerance(param) ==
    Get(engine.measurement_tolerance, param, MEASUREMENT_TOLERANCE[param])

\* C27: whatever configuration the engine was built with, compare_structures
\* and compare_measurements return, and where a value was not configured
\* they decide with the default: a confident detection is one of confidence
\* at least 0.8, and two values match within BPD 2.0, HC 5.0, AC 5.0, FL 2.0.
C27_DefaultsApplied ==
    \A i \in 1..Len(calls) :
        /\ Op(calls[i]) = "compare_structures" =>
              /\ Returned(Out(calls[i]))
              /\ \A c \in DOMAIN Out(calls[i]).ret :
                   \A s \in DOMAIN Out(calls[i]).ret[c] :
                      LET result == Out(calls[i]).ret[c][s]
                      IN  result.status = "omission" =>
                             result.ai_confidence >= HighThreshold
        /\ Op(calls[i]) = "compare_measurements" =>
              /\ Returned(Out(calls[i]))
              /\ \A p \in DOMAIN Out(calls[i]).ret :
                    LET result == Out(calls[i]).ret[p]
                    IN  result.status \in {"match", "mismatch"} =>
                          /\ result.tolerance = DocumentedTolerance(p)
                          /\ (result.status = "match")
                                <=> (result.difference <= DocumentedTolerance(p))
----------------------------------------------------------------------------
(* C28 *)

\* the events call i wrote to the telemetry log, in the order of their lines
EventsOf(i) ==
    LET lines == SelectSeq(telemetry, LAMBDA w : w.request = i /\ w.part = 1)
    IN  [k \in 1..Len(lines) |-> lines[k].event]

\* the exception of the first stage of run_verification(a) that raises
StageError(a) ==
    LET input == PrepareInputs(a[1], a[2])
        pre == PreprocessImage(input.ret.payload)
    IN  IF ~Returned(input) THEN Some(input)
        ELSE IF ~Returned(pre) THEN Some(pre)
        ELSE None

\* C28: a call of run_verification records a 'verification_start' event and
\* after it exactly one terminal event: 'verification_success' with the
\* status of the comparison when it returns a bundle, and otherwise
\* 'verification_error' with the class and the detail of the exception a
\* stage raised, which is the exception the caller receives.
C28_OneTerminalEvent ==
    \A i \in 1..Len(calls) :
        Op(calls[i]) = "run_verification" =>
           LET events == EventsOf(i)
               out == Out(calls[i])
               context == Context(Args(calls[i])[1])
           IN  /\ Len(events) = 2
               /\ events[1] = TelemetryEvent("verification_start", context)
               /\ events[2].event_type
                     \in {"verification_success", "verification_error"}
               /\ (events[2].event_type = "verification_success")
                     <=> Returned(out)
               /\ Returned(out) =>
                     /\ StageError(Args(calls[i])) = None
                     /\ events[2].payload =
                           context @@ [status |-> out.ret.bundle.comparison.status]
               /\ ~Returned(out) =>
                     /\ StageError(Args(calls[i])) = Some(out)
                     /\ events[2].payload =
                           context @@ [error |-> out.exc.class,
                                       detail |-> out.exc.detail]

\* a call in which the Preprocess stage raised (cv2.error) and that wrote
\* the start event and the error event
C28_Witness ==
    \E i \in 1..Len(calls) :
        /\ Op(calls[i]) = "run_verification"
        /\ ~Returned(Out(calls[i]))
        /\ Out(calls[i]).exc.class = "error"
        /\ Len(EventsOf(i)) = 2
        /\ EventsOf(i)[2].event_type = "verification_error"
----------------------------------------------------------------------------
(* C29 *)

\* a sentence holds a negation marker as a word or phrase of its own
NegationWordIn(sentence) ==
    SearchWords(Range(NEGATION_KEYWORDS), sentence)

\* a detection of the skull with confidence 0.85
ConfidentSkull == [brain |-> [skull |-> [present |-> TRUE, confidence |-> 85]]]

\* C29: extract_structure_mentions flags a keyword as negated only if one of
\* the sentences containing it holds a negation marker as a word or phrase
\* of its own ('no' inside 'normal' is none), and a skull that the report
\* names in such sentences only matches a confident detection of the skull.
C29_NegationWholeWord ==
    \A i \in Returns("extract_structure_mentions") :
      LET findings == Out(calls[i]).ret
      IN  \A category \in DOMAIN findings :
            \A n \in 1..Len(findings[category]) :
              LET data == findings[category][n].data
                  marked == \E k \in 1..Len(data.relevant_sentences) :
                               NegationWordIn(data.relevant_sentences[k])
              IN  /\ data.negated => marked
                  /\ (findings[category][n].keyword = "skull" /\ ~marked) =>
                        CompareStructuresOp(EngineInit(EmptyDict),
                                            ConfidentSkull, findings)
                            = Ret([brain |-> [skull |->
                                     [status |-> "match",
                                      ai_present |-> TRUE,
                                      ai_confidence |-> 85,
                                      doctor_mentioned |-> TRUE,
                                      doctor_negated |-> FALSE,
                                      severity |-> "low"]]])
----------------------------------------------------------------------------
(* C30 *)

\* the findings of a parsed report whose keyword names the structure and
\* which the parser did not flag as negated, as (category, place) pairs
NamedNotNegated(structure_name, structures) ==
    { f \in UNION { {c} \X (1..Len(structures[c])) : c \in DOMAIN structures } :
        /\ KeywordMatches(structure_name, structures[f[1]][f[2]].keyword)
        /\ ~structures[f[1]][f[2]].data.negated }

\* the findings of a parsed report whose keyword names the structure
Named(structure_name, structures) ==
    { f \in UNION { {c} \X (1..Len(structures[c])) : c \in DOMAIN structures } :
        KeywordMatches(structure_name, structures[f[1]][f[2]].keyword) }

\* C30: when verify is applied to a parsed report and an engine that holds
\* the high threshold, every catalog structure detected with at least that
\* confidence which the report names with a tracked keyword, without
\* negating it, gets status 'match'; and a structure counts as mentioned
\* only if a keyword of the report names it.
C30_CatalogAligned ==
    \A i \in 1..Len(calls) :
        (/\ Op(calls[i]) = "verify"
         /\ "high" \in DOMAIN engine.confidence_thresholds) =>
           LET detected == Args(calls[i])[1].structures_detected
               structures == Args(calls[i])[2].structures
               out == Out(calls[i])
           IN  /\ Returned(out)
               /\ \A c \in DOMAIN detected : \A s \in DOMAIN detected[c] :
                     LET result == out.ret.structure_comparisons[c][s]
                     IN  /\ (/\ detected[c][s].present
                             /\ detected[c][s].confidence
                                   >= engine.confidence_thresholds["high"]
                             /\ NamedNotNegated(s, structures) # {})
                                => result.status = "match"
                         /\ result.doctor_mentioned
                                => Named(s, structures) # {}
====
